---------------------------- MODULE Spec2Model ----------------------------
(***************************************************************************)
(* A model of dagster's auto-materialize rule engine                       *)
(* (dagster/_core/definitions/auto_materialize_rule.py): the rules, the    *)
(* per-asset evaluation context, the per-asset evaluation record, and the  *)
(* tick that runs them against a cursor.                                   *)
(*                                                                         *)
(* The asset graph is  A --> B.  A is a partitioned root asset.  B is      *)
(* either partitioned like A or unpartitioned (it then depends on every    *)
(* partition of A).  Several code locations can be deployed.  In           *)
(* deployment 1 a partition of B depends on the same partition of A, and   *)
(* the policy skips on missing parents and on backfills.  In deployment 2  *)
(* a partition of B depends on the partition of A before it (a time window *)
(* mapping with an offset), so that the first partition of B requires a    *)
(* partition of A that does not exist, and the policy holds the four skip  *)
(* rules that carry data forward.  The other deployments are deployment 1  *)
(* with one difference each: in deployment 3 the root A is unpartitioned,  *)
(* in deployment 4 a partition of B also depends on the partition of B     *)
(* before it, in deployment 5 A is a source asset that no run can          *)
(* materialize, in deployment 6 A and B live in two repositories, in       *)
(* deployment 7 every partition of B depends on the last partition of A,   *)
(* and in deployment 8 A is a source asset that can be observed.           *)
(*                                                                         *)
(* Spec follows the ticks of deployment 1, Deployment2Spec those of        *)
(* deployment 2, RootSpec those of deployments 1 and 3, CallSpec one call  *)
(* of one operation of the module (a rule, the record's builder, readers  *)
(* and comparison, a rule's equality, the legacy decoder) on arguments     *)
(* drawn from bounded sets, and RuleCallSpec one call of a rule or of a    *)
(* evaluation context under a deployment and an instance drawn from        *)
(* bounded sets.                                                           *)
(***************************************************************************)
EXTENDS Integers, Sequences, FiniteSets, TLC

\* ------------------------------------------------------------------ bounds
NumPartitions == 2
MaxEvents == 2
MaxDefVersion == 2
Limit == 1
MaxCandidates == 4
MaxFirings == 2

VARIABLES
    b_partitioned,            \* asset graph: whether B is partitioned like A
    partitions_def_version,   \* asset graph: the version of the partitions definition in use
    latest_materialization,   \* instance: asset partition -> storage id of its latest record (0: none)
    last_storage_id,          \* instance: the storage id of the newest event
    backfill,                 \* instance: the asset partitions an active backfill targets
    cursor,                   \* the AssetDaemonCursor: the state persisted from tick to tick
    phase,                    \* the daemon: "idle" | "evaluating" | "failed" (idle after a failed tick)
    pending,                  \* the tick in flight: asset key -> what evaluate_asset returned
    deployment,               \* asset graph: which code location is deployed (its policy and mapping)
    outdated,                 \* instance: the asset partitions whose upstream source data is newer
    call,                     \* a call of one operation of the module on given arguments
    call_result               \* what the call returned

vars == <<b_partitioned, partitions_def_version, latest_materialization, last_storage_id,
          backfill, cursor, phase, pending, deployment, outdated, call, call_result>>

\* ------------------------------------------------------------- asset graph
AssetKeys == {"A", "B"}
PartitionKeys == 1..NumPartitions
NoPartitionKey == 0

AssetKeyPartitionKey(asset_key, partition_key) == <<asset_key, partition_key>>

AllAssetPartitions ==
    {AssetKeyPartitionKey(k, p) : k \in AssetKeys, p \in PartitionKeys \cup {NoPartitionKey}}

\* AssetGraph.get_partitions_def: 0 stands for None (an unpartitioned asset)
get_partitions_def(asset_key) ==
    IF asset_key = "A"
    THEN IF deployment = 3 THEN 0 ELSE partitions_def_version
    ELSE IF b_partitioned THEN partitions_def_version ELSE 0

is_partitioned(asset_key) == get_partitions_def(asset_key) # 0

\* every asset partition of an asset under its current partitions definition
asset_partitions_of(asset_key) ==
    IF is_partitioned(asset_key)
    THEN {AssetKeyPartitionKey(asset_key, p) : p \in PartitionKeys}
    ELSE {AssetKeyPartitionKey(asset_key, NoPartitionKey)}

\* in deployment 4 a partitioned B is one of its own parents
get_parents(asset_key) ==
    IF asset_key = "B"
    THEN IF deployment = 4 /\ b_partitioned THEN {"A", "B"} ELSE {"A"}
    ELSE {}

\* in deployments 5 and 8 A is a source asset
materializable_asset_keys == IF deployment \in {5, 8} THEN {"B"} ELSE AssetKeys

have_same_partitioning(child_key, parent_key) ==
    get_partitions_def(child_key) = get_partitions_def(parent_key)

\* the kind of the partition mapping from parent to child
get_partition_mapping(child_key, parent_key) ==
    IF child_key = parent_key
    THEN "TimeWindowPartitionMapping"
    ELSE IF have_same_partitioning(child_key, parent_key)
         THEN CASE deployment = 2 -> "TimeWindowPartitionMapping"
                [] deployment = 7 -> "LastPartitionMapping"
                [] OTHER -> "IdentityPartitionMapping"
         ELSE "AllPartitionMapping"

\* the offset of the time window partition mappings: the partition before
start_offset == -1

\* both assets live in one repository, but in deployment 6
get_repository_handle(asset_key) == IF deployment = 6 THEN asset_key ELSE "repo"

\* the parent partitions a partition mapping maps a partition to, existing or not
mapped_parent_partitions(asset_key, parent_key, partition_key) ==
    CASE get_partition_mapping(asset_key, parent_key) = "IdentityPartitionMapping"
            -> {AssetKeyPartitionKey(parent_key, partition_key)}
      [] get_partition_mapping(asset_key, parent_key) = "TimeWindowPartitionMapping"
            -> {AssetKeyPartitionKey(parent_key, partition_key + start_offset)}
      [] get_partition_mapping(asset_key, parent_key) = "LastPartitionMapping"
            -> {AssetKeyPartitionKey(parent_key, NumPartitions)}
      [] OTHER -> asset_partitions_of(parent_key)

\* AssetGraph.get_parents_partitions(...).parent_partitions
get_parents_partitions(asset_key, partition_key) ==
    UNION {mapped_parent_partitions(asset_key, parent_key, partition_key)
                \cap asset_partitions_of(parent_key) : parent_key \in get_parents(asset_key)}

\* AssetGraph.get_parents_partitions(...).required_but_nonexistent_parents_partitions
required_but_nonexistent_parents_partitions(asset_key, partition_key) ==
    UNION {mapped_parent_partitions(asset_key, parent_key, partition_key)
                \ asset_partitions_of(parent_key) : parent_key \in get_parents(asset_key)}

\* sort_key_for_asset_partition: newest partition first, a total order on
\* the partitions of one asset
sort_key_for_asset_partition(asset_partition) == NumPartitions - asset_partition[2]

\* ------------------------------------------------------- instance queryer
\* CachingInstanceQueryer.asset_partition_has_materialization_or_observation
asset_partition_has_materialization_or_observation(asset_partition, after_cursor) ==
    latest_materialization[asset_partition] > after_cursor

\* CachingInstanceQueryer.get_parent_asset_partitions_updated_after_child
get_parent_asset_partitions_updated_after_child(asset_partition, parent_asset_partitions, ignored_parent_keys) ==
    {parent \in parent_asset_partitions :
        /\ parent[1] \notin ignored_parent_keys
        /\ latest_materialization[parent] > latest_materialization[asset_partition]}

\* CachingInstanceQueryer.get_active_backfill_target_asset_graph_subset
get_active_backfill_target_asset_graph_subset == backfill

\* CachingInstanceQueryer.get_outdated_ancestors: the keys of the assets
\* at the root of an asset partition being out of date
get_outdated_ancestors(asset_partition) ==
    IF asset_partition \in outdated THEN {asset_partition[1]} ELSE {}

\* CachingInstanceQueryer.have_ignorable_partition_mapping_for_outdated:
\* the mapping of an asset to itself is ignorable
have_ignorable_partition_mapping_for_outdated(asset_key, parent_key) == asset_key = parent_key


\* ------------------------------------------------------------ daemon context
\* AssetDaemonContext.get_asset_partitions_with_newly_updated_parents_for_key:
\* the partitions of the asset with a parent partition updated after the cursor
get_asset_partitions_with_newly_updated_parents_for_key(cur, asset_key) ==
    {asset_partition \in asset_partitions_of(asset_key) :
        \E parent \in get_parents_partitions(asset_key, asset_partition[2]) :
            asset_partition_has_materialization_or_observation(parent, cur.latest_storage_id)}

\* a query that overlooks the roots that have no partitions
get_never_handled_partitions_of_partitioned_roots(cur, asset_key) ==
    IF get_parents(asset_key) # {} \/ ~is_partitioned(asset_key)
    THEN {}
    ELSE {asset_partition \in asset_partitions_of(asset_key) :
            /\ asset_partition \notin cur.handled_root_asset_partitions
            /\ ~asset_partition_has_materialization_or_observation(asset_partition, 0)}

\* AssetDaemonContext.get_never_handled_root_asset_partitions_for_key: the
\* partitions of a root asset never materialized, requested or discarded
get_never_handled_root_asset_partitions_for_key(cur, asset_key) ==
    IF get_parents(asset_key) # {}
    THEN {}
    ELSE {asset_partition \in asset_partitions_of(asset_key) :
            /\ asset_partition \notin cur.handled_root_asset_partitions
            /\ ~asset_partition_has_materialization_or_observation(asset_partition, 0)}

\* ------------------------------------------------ rules and their snapshots
MATERIALIZE == "MATERIALIZE"
SKIP == "SKIP"
DISCARD == "DISCARD"

\* a rule is its class and its one configuration field (0 when it has none;
\* a boolean field is 1 for True)
MaterializeOnRequiredForFreshnessRule ==
    [class_name |-> "MaterializeOnRequiredForFreshnessRule", field |-> 0]
MaterializeOnParentUpdatedRule == [class_name |-> "MaterializeOnParentUpdatedRule", field |-> 0]
MaterializeOnMissingRule == [class_name |-> "MaterializeOnMissingRule", field |-> 0]
SkipOnParentOutdatedRule == [class_name |-> "SkipOnParentOutdatedRule", field |-> 0]
SkipOnParentMissingRule == [class_name |-> "SkipOnParentMissingRule", field |-> 0]
SkipOnNotAllParentsUpdatedRule(require_update_for_all_parent_partitions) ==
    [class_name |-> "SkipOnNotAllParentsUpdatedRule",
     field |-> require_update_for_all_parent_partitions]
SkipOnRequiredButNonexistentParentsRule ==
    [class_name |-> "SkipOnRequiredButNonexistentParentsRule", field |-> 0]
SkipOnBackfillInProgressRule(all_partitions) ==
    [class_name |-> "SkipOnBackfillInProgressRule", field |-> all_partitions]
DiscardOnMaxMaterializationsExceededRule(limit) ==
    [class_name |-> "DiscardOnMaxMaterializationsExceededRule", field |-> limit]

decision_type(rule) ==
    CASE rule.class_name \in {"MaterializeOnRequiredForFreshnessRule",
                              "MaterializeOnParentUpdatedRule", "MaterializeOnMissingRule"}
            -> MATERIALIZE
      [] rule.class_name \in {"SkipOnParentOutdatedRule", "SkipOnParentMissingRule",
                              "SkipOnNotAllParentsUpdatedRule",
                              "SkipOnRequiredButNonexistentParentsRule",
                              "SkipOnBackfillInProgressRule"}
            -> SKIP
      [] rule.class_name = "DiscardOnMaxMaterializationsExceededRule" -> DISCARD

\* a description that is the same for every configuration of a class
description_of_class(rule) == <<rule.class_name, 0>>

\* a description is its text and the value formatted into it (0 when none)
description(rule) ==
    CASE rule.class_name = "MaterializeOnRequiredForFreshnessRule"
            -> <<"required to meet this or downstream asset's freshness policy", 0>>
      [] rule.class_name = "MaterializeOnParentUpdatedRule"
            -> <<"upstream data has changed since latest materialization", 0>>
      [] rule.class_name = "MaterializeOnMissingRule"
            -> <<"materialization is missing", 0>>
      [] rule.class_name = "SkipOnParentOutdatedRule"
            -> <<"waiting on upstream data to be up to date", 0>>
      [] rule.class_name = "SkipOnParentMissingRule"
            -> <<"waiting on upstream data to be present", 0>>
      [] rule.class_name = "SkipOnNotAllParentsUpdatedRule"
            -> IF rule.field = 0
               THEN <<"waiting on upstream data to be updated", 0>>
               ELSE <<"waiting until all upstream partitions are updated", 0>>
      [] rule.class_name = "SkipOnRequiredButNonexistentParentsRule"
            -> <<"required parent partitions do not exist", 0>>
      [] rule.class_name = "SkipOnBackfillInProgressRule"
            -> IF rule.field = 1
               THEN <<"part of an asset targeted by an in-progress backfill", 0>>
               ELSE <<"targeted by an in-progress backfill", 0>>
      [] rule.class_name = "DiscardOnMaxMaterializationsExceededRule"
            -> <<"exceeds {limit} materialization(s) per minute", rule.field>>

\* the fields of a rule, a NamedTuple: none, or its one configuration field
rule_fields(rule) ==
    IF rule.class_name \in {"SkipOnNotAllParentsUpdatedRule", "SkipOnBackfillInProgressRule",
                            "DiscardOnMaxMaterializationsExceededRule"}
    THEN <<rule.field>>
    ELSE <<>>

\* NamedTuple's own __eq__: the fields are equal
namedtuple_eq(self, other) == rule_fields(self) = rule_fields(other)

\* AutoMaterializeRule.__eq__
rule_eq(self, other) ==
    self.class_name = other.class_name /\ rule_fields(self) = rule_fields(other)

\* AutoMaterializeRule.__hash__: computed from the class and the fields
rule_hash(rule) == <<rule.class_name, rule_fields(rule)>>

\* len({self, other}): two keys are one when they hash alike and are equal
len_of_set(self, other) ==
    IF rule_hash(self) = rule_hash(other) /\ rule_eq(self, other) THEN 1 ELSE 2

\* AutoMaterializeRuleSnapshot.from_rule
from_rule(rule) ==
    [class_name |-> rule.class_name,
     description |-> description(rule),
     decision_type |-> decision_type(rule)]

to_snapshot(rule) == from_rule(rule)

\* the auto-materialize policy of every asset
materialize_rules == {MaterializeOnParentUpdatedRule, MaterializeOnMissingRule}
skip_rules_of_deployment_1 == {SkipOnParentMissingRule, SkipOnBackfillInProgressRule(0)}
skip_rules_of_deployment_2 ==
    {SkipOnParentOutdatedRule, SkipOnParentMissingRule, SkipOnNotAllParentsUpdatedRule(1),
     SkipOnRequiredButNonexistentParentsRule}
skip_rules == IF deployment # 2 THEN skip_rules_of_deployment_1 ELSE skip_rules_of_deployment_2
discard_rules == {DiscardOnMaxMaterializationsExceededRule(Limit)}
rule_snapshots == {to_snapshot(rule) : rule \in materialize_rules \cup skip_rules}

\* AssetGraph.auto_materialize_policies_by_key: the materializable assets
\* hold the policy, a source asset holds none
auto_materialize_policies_by_key ==
    [asset_key \in materializable_asset_keys |->
        materialize_rules \cup skip_rules \cup discard_rules]

\* what a call leaves when check.failed raises: the error, and no value
check_failed == [raised |-> "CheckError"]

\* the snapshots in the records of deployment 1
rule_snapshots_of_deployment_1 ==
    {to_snapshot(rule) : rule \in materialize_rules \cup skip_rules_of_deployment_1}

\* ------------------------------------------------------- evaluation data
NoData ==
    [kind |-> "None", updated_asset_keys |-> {}, will_update_asset_keys |-> {},
     waiting_on_asset_keys |-> {}]

ParentUpdatedRuleEvaluationData(updated_asset_keys, will_update_asset_keys) ==
    [kind |-> "ParentUpdatedRuleEvaluationData", updated_asset_keys |-> updated_asset_keys,
     will_update_asset_keys |-> will_update_asset_keys, waiting_on_asset_keys |-> {}]

WaitingOnAssetsRuleEvaluationData(waiting_on_asset_keys) ==
    [kind |-> "WaitingOnAssetsRuleEvaluationData", updated_asset_keys |-> {},
     will_update_asset_keys |-> {}, waiting_on_asset_keys |-> waiting_on_asset_keys]

AutoMaterializeRuleEvaluation(rule_snapshot, evaluation_data) ==
    [rule_snapshot |-> rule_snapshot, evaluation_data |-> evaluation_data]

\* ------------------------------------------------ serialized partition subsets
\* None, stored for an unpartitioned asset
NoSubset == [is_none |-> TRUE, partitions_def |-> 0, serialized_subset |-> <<>>]

\* the string a subset serializes to is the list of its keys; a tick of
\* this model writes them in ascending order
RECURSIVE serialize(_)
serialize(partition_keys) ==
    IF partition_keys = {} THEN <<>>
    ELSE LET first == CHOOSE k \in partition_keys : \A other \in partition_keys : k <= other
         IN  <<first>> \o serialize(partition_keys \ {first})

\* SerializedPartitionsSubset.from_subset: the serialized keys, tagged with
\* the partitions definition they were serialized against
from_subset(partition_keys, partitions_def) ==
    [is_none |-> FALSE, partitions_def |-> partitions_def,
     serialized_subset |-> serialize(partition_keys)]

\* SerializedPartitionsSubset.can_deserialize
can_deserialize(serialized_subset, partitions_def) ==
    serialized_subset.partitions_def = partitions_def

\* SerializedPartitionsSubset.deserialize(...).get_partition_keys()
deserialize(serialized_subset) ==
    {serialized_subset.serialized_subset[i] : i \in DOMAIN serialized_subset.serialized_subset}


\* ------------------------------------------- AutoMaterializeAssetEvaluation
\* partition_subsets_by_condition, a list, is kept by the tick as the set of
\* its entries: no two entries of one record are equal, and only
\* equivalent_to_stored_evaluation, which is given lists, reads their order
AutoMaterializeAssetEvaluation(asset_key, partition_subsets_by_condition, num_requested, num_skipped, num_discarded, snapshots) ==
    [asset_key |-> asset_key,
     partition_subsets_by_condition |-> partition_subsets_by_condition,
     num_requested |-> num_requested,
     num_skipped |-> num_skipped,
     num_discarded |-> num_discarded,
     rule_snapshots |-> snapshots]

\* a building of the record that does not look for the asset's policy
from_rule_evaluation_results_of_any_asset(asset_key, asset_partitions_by_rule_evaluation, num_requested, num_skipped, num_discarded) ==
    LET partitions_def == get_partitions_def(asset_key)
    IN  IF partitions_def = 0
        THEN AutoMaterializeAssetEvaluation(asset_key,
                {<<entry[1], NoSubset>> : entry \in asset_partitions_by_rule_evaluation},
                num_requested, num_skipped, num_discarded, rule_snapshots)
        ELSE AutoMaterializeAssetEvaluation(asset_key,
                {<<entry[1], from_subset({ap[2] : ap \in entry[2]}, partitions_def)>> :
                    entry \in asset_partitions_by_rule_evaluation},
                num_requested, num_skipped, num_discarded, rule_snapshots)

\* AutoMaterializeAssetEvaluation.from_rule_evaluation_results
from_rule_evaluation_results(asset_key, asset_partitions_by_rule_evaluation, num_requested, num_skipped, num_discarded) ==
    LET partitions_def == get_partitions_def(asset_key)
    IN  IF asset_key \notin DOMAIN auto_materialize_policies_by_key
        THEN check_failed
        ELSE IF partitions_def = 0
        THEN AutoMaterializeAssetEvaluation(asset_key,
                {<<entry[1], NoSubset>> : entry \in asset_partitions_by_rule_evaluation},
                num_requested, num_skipped, num_discarded, rule_snapshots)
        ELSE AutoMaterializeAssetEvaluation(asset_key,
                {<<entry[1], from_subset({ap[2] : ap \in entry[2]}, partitions_def)>> :
                    entry \in asset_partitions_by_rule_evaluation},
                num_requested, num_skipped, num_discarded, rule_snapshots)

\* a reading of an entry that does not look at the asset's partitions definition
deserialize_whatever_the_partitions_def(evaluation, rule_evaluation, serialized_subset) ==
    IF serialized_subset.is_none
    THEN {<<rule_evaluation.evaluation_data,
            {AssetKeyPartitionKey(evaluation.asset_key, NoPartitionKey)}>>}
    ELSE {<<rule_evaluation.evaluation_data,
            {AssetKeyPartitionKey(evaluation.asset_key, partition_key) :
                partition_key \in deserialize(serialized_subset)}>>}

\* a reading of an entry that gives nothing back for None
deserialize_serialized_subsets_only(evaluation, rule_evaluation, serialized_subset) ==
    LET partitions_def == get_partitions_def(evaluation.asset_key)
    IN  IF ~serialized_subset.is_none /\ can_deserialize(serialized_subset, partitions_def)
                /\ partitions_def # 0
        THEN {<<rule_evaluation.evaluation_data,
                {AssetKeyPartitionKey(evaluation.asset_key, partition_key) :
                    partition_key \in deserialize(serialized_subset)}>>}
        ELSE {}

\* AutoMaterializeAssetEvaluation._deserialize_rule_evaluation_result: the
\* set holding the one (evaluation data, asset partitions) pair, or the
\* empty set for None
deserialize_rule_evaluation_result(evaluation, rule_evaluation, serialized_subset) ==
    LET partitions_def == get_partitions_def(evaluation.asset_key)
    IN  IF serialized_subset.is_none
        THEN IF partitions_def = 0
             THEN {<<rule_evaluation.evaluation_data,
                     {AssetKeyPartitionKey(evaluation.asset_key, NoPartitionKey)}>>}
             ELSE {}
        ELSE IF can_deserialize(serialized_subset, partitions_def) /\ partitions_def # 0
             THEN {<<rule_evaluation.evaluation_data,
                     {AssetKeyPartitionKey(evaluation.asset_key, partition_key) :
                        partition_key \in deserialize(serialized_subset)}>>}
             ELSE {}

\* AutoMaterializeAssetEvaluation.get_rule_evaluation_results
get_rule_evaluation_results(evaluation, rule_snapshot) ==
    UNION {deserialize_rule_evaluation_result(evaluation, entry[1], entry[2]) :
            entry \in {e \in evaluation.partition_subsets_by_condition :
                        e[1].rule_snapshot = rule_snapshot}}

\* AutoMaterializeAssetEvaluation._get_asset_partitions_with_decision_type
get_asset_partitions_with_decision_type(evaluation, decision) ==
    UNION {result[2] :
            result \in UNION {deserialize_rule_evaluation_result(evaluation, entry[1], entry[2]) :
                entry \in {e \in evaluation.partition_subsets_by_condition :
                            e[1].rule_snapshot.decision_type = decision}}}

\* a reading of the requested or discarded partitions that forgets the skip firings
get_materialize_asset_partitions_only(evaluation) ==
    get_asset_partitions_with_decision_type(evaluation, MATERIALIZE)

\* AutoMaterializeAssetEvaluation.get_requested_or_discarded_asset_partitions
get_requested_or_discarded_asset_partitions(evaluation) ==
    LET to_materialize == get_asset_partitions_with_decision_type(evaluation, MATERIALIZE)
        to_skip == get_asset_partitions_with_decision_type(evaluation, SKIP)
    IN  IF to_materialize = {} THEN {} ELSE to_materialize \ to_skip

\* AutoMaterializeAssetEvaluation.get_evaluated_asset_partitions
get_evaluated_asset_partitions(evaluation) ==
    get_asset_partitions_with_decision_type(evaluation, MATERIALIZE)

\* the strings of the model in the order of Python's str comparison
StringsInOrder ==
    <<"DiscardOnMaxMaterializationsExceededRule",
      "MaterializeOnMissingRule",
      "MaterializeOnParentUpdatedRule",
      "MaterializeOnRequiredForFreshnessRule",
      "SkipOnBackfillInProgressRule",
      "SkipOnNotAllParentsUpdatedRule",
      "SkipOnParentMissingRule",
      "SkipOnParentOutdatedRule",
      "SkipOnRequiredButNonexistentParentsRule",
      "exceeds {limit} materialization(s) per minute",
      "materialization is missing",
      "part of an asset targeted by an in-progress backfill",
      "required parent partitions do not exist",
      "required to meet this or downstream asset's freshness policy",
      "targeted by an in-progress backfill",
      "upstream data has changed since latest materialization",
      "waiting on upstream data to be present",
      "waiting on upstream data to be up to date",
      "waiting on upstream data to be updated",
      "waiting until all upstream partitions are updated">>

\* str.__lt__
str_lt(left, right) ==
    \E i, j \in DOMAIN StringsInOrder :
        StringsInOrder[i] = left /\ StringsInOrder[j] = right /\ i < j

\* frozenset.__lt__: proper subset, a partial order
frozenset_lt(left, right) == left # right /\ left \subseteq right

\* tuple.__lt__ on two tuples of sets: the first items that differ decide
tuple_of_sets_lt(left, right) ==
    LET differing == {i \in DOMAIN left \cap DOMAIN right : left[i] # right[i]}
    IN  IF differing # {}
        THEN LET first == CHOOSE i \in differing : \A j \in differing : i <= j
             IN  frozenset_lt(left[first], right[first])
        ELSE Len(left) < Len(right)

\* the fields of an evaluation data value, a NamedTuple
evaluation_data_fields(evaluation_data) ==
    CASE evaluation_data.kind = "ParentUpdatedRuleEvaluationData"
            -> <<evaluation_data.updated_asset_keys, evaluation_data.will_update_asset_keys>>
      [] evaluation_data.kind = "WaitingOnAssetsRuleEvaluationData"
            -> <<evaluation_data.waiting_on_asset_keys>>
      [] OTHER -> <<>>

\* AutoMaterializeRuleSnapshot's tuple.__lt__, for snapshots that differ in
\* their class name or their description (the limit formatted into a
\* description has one digit)
rule_snapshot_lt(left, right) ==
    IF left.class_name # right.class_name
    THEN str_lt(left.class_name, right.class_name)
    ELSE IF left.description[1] # right.description[1]
         THEN str_lt(left.description[1], right.description[1])
         ELSE left.description[2] < right.description[2]

\* AutoMaterializeRuleEvaluation's tuple.__lt__; two evaluations of one
\* snapshot hold evaluation data of one type
rule_evaluation_lt(left, right) ==
    IF left.rule_snapshot # right.rule_snapshot
    THEN rule_snapshot_lt(left.rule_snapshot, right.rule_snapshot)
    ELSE tuple_of_sets_lt(evaluation_data_fields(left.evaluation_data),
                          evaluation_data_fields(right.evaluation_data))

\* tuple.__lt__ on two entries (rule evaluation, serialized subset) of a
\* record's list; the entries of one list differ in their rule evaluations,
\* so the first items decide
entry_lt(left, right) == left[1] # right[1] /\ rule_evaluation_lt(left[1], right[1])

\* list.sort's count_run: the length of the run a list starts with and
\* whether it is descending
RECURSIVE run_length(_, _, _)
run_length(list, n, descending) ==
    IF n = Len(list) THEN n
    ELSE IF descending = entry_lt(list[n + 1], list[n])
         THEN run_length(list, n + 1, descending)
         ELSE n

count_run(list) ==
    LET descending == entry_lt(list[2], list[1])
    IN  [n |-> run_length(list, 2, descending), descending |-> descending]

reverse(list) == [i \in 1..Len(list) |-> list[Len(list) + 1 - i]]

\* list.sort's binarysort: the place (0-based) at which the pivot goes
\* into the sorted items before it
RECURSIVE bisect(_, _, _, _)
bisect(list, pivot, l, r) ==
    IF l >= r THEN l
    ELSE LET p == l + ((r - l) \div 2)
         IN  IF entry_lt(pivot, list[p + 1])
             THEN bisect(list, pivot, l, p)
             ELSE bisect(list, pivot, p + 1, r)

\* list.sort's binarysort of a list whose first start items are sorted
RECURSIVE binarysort(_, _)
binarysort(list, start) ==
    IF start >= Len(list) THEN list
    ELSE LET pivot == list[start + 1]
             l == bisect(list, pivot, 0, start)
         IN  binarysort(SubSeq(list, 1, l) \o <<pivot>> \o SubSeq(list, l + 1, start)
                            \o SubSeq(list, start + 2, Len(list)),
                        start + 1)

\* sorted(list) of a list shorter than a minimum run of list.sort: the
\* run the list starts with, reversed when descending, then a binary
\* insertion sort of the rest
sorted(list) ==
    IF Len(list) < 2 THEN list
    ELSE LET run == count_run(list)
             start == IF run.descending
                      THEN reverse(SubSeq(list, 1, run.n)) \o SubSeq(list, run.n + 1, Len(list))
                      ELSE list
         IN  binarysort(start, run.n)

\* an equivalence that does not look at the stored record's counts
equivalent_whatever_was_requested(self, stored_evaluation) ==
    \E stored \in stored_evaluation :
        LET sorted_results == sorted(self.partition_subsets_by_condition)
            sorted_stored_results == sorted(stored.partition_subsets_by_condition)
        IN  /\ self.asset_key = stored.asset_key
            /\ self.rule_snapshots = stored.rule_snapshots
            /\ Len(sorted_results) = Len(sorted_stored_results)
            /\ \/ sorted_results = sorted_stored_results
               \/ [i \in DOMAIN sorted_results |->
                        deserialize_rule_evaluation_result(self, sorted_results[i][1],
                                                           sorted_results[i][2])]
                  = [i \in DOMAIN sorted_stored_results |->
                        deserialize_rule_evaluation_result(self, sorted_stored_results[i][1],
                                                           sorted_stored_results[i][2])]

\* AutoMaterializeAssetEvaluation.equivalent_to_stored_evaluation, on records
\* whose partition_subsets_by_condition are lists; stored_evaluation is the
\* set holding the stored record, or the empty set for None
equivalent_to_stored_evaluation(self, stored_evaluation) ==
    \E stored \in stored_evaluation :
        LET sorted_results == sorted(self.partition_subsets_by_condition)
            sorted_stored_results == sorted(stored.partition_subsets_by_condition)
        IN  /\ self.asset_key = stored.asset_key
            /\ self.rule_snapshots = stored.rule_snapshots
            /\ stored.num_requested = 0
            /\ stored.num_discarded = 0
            /\ stored.num_skipped = self.num_skipped
            /\ Len(sorted_results) = Len(sorted_stored_results)
            /\ \/ sorted_results = sorted_stored_results
               \/ [i \in DOMAIN sorted_results |->
                        deserialize_rule_evaluation_result(self, sorted_results[i][1],
                                                           sorted_results[i][2])]
                  = [i \in DOMAIN sorted_stored_results |->
                        deserialize_rule_evaluation_result(self, sorted_stored_results[i][1],
                                                           sorted_stored_results[i][2])]

\* ------------------------------ BackcompatAutoMaterializeConditionSerializer
\* the retired condition classes a stored record can name
LegacyConditions ==
    {"FreshnessAutoMaterializeCondition", "DownstreamFreshnessAutoMaterializeCondition",
     "MissingAutoMaterializeCondition", "ParentMaterializedAutoMaterializeCondition",
     "ParentOutdatedAutoMaterializeCondition",
     "MaxMaterializationsExceededAutoMaterializeCondition"}

\* a value of the unpacked dict: a set, a value of another type, or no
\* value under the key (dict.get gives None)
UnpackedValues ==
    [type : {"set", "list"}, items : SUBSET AssetKeys] \cup {[type |-> "absent", items |-> {}]}

\* the items of any value that has some
items_of_any_value(value) == value.items

\* frozenset(value) if isinstance(value, set) else frozenset()
frozenset_if_set(value) == IF value.type = "set" THEN value.items ELSE {}

\* a decoder that gives a class it does not know the identity of Missing
unpack_with_default(klass, unpacked_dict) ==
    CASE klass \in {"FreshnessAutoMaterializeCondition",
                    "DownstreamFreshnessAutoMaterializeCondition"}
            -> {AutoMaterializeRuleEvaluation(
                    to_snapshot(MaterializeOnRequiredForFreshnessRule), NoData)}
      [] klass = "ParentMaterializedAutoMaterializeCondition"
            -> {AutoMaterializeRuleEvaluation(
                    to_snapshot(MaterializeOnParentUpdatedRule),
                    ParentUpdatedRuleEvaluationData(
                        frozenset_if_set(unpacked_dict["updated_asset_keys"]),
                        frozenset_if_set(unpacked_dict["will_update_asset_keys"])))}
      [] klass = "ParentOutdatedAutoMaterializeCondition"
            -> {AutoMaterializeRuleEvaluation(
                    to_snapshot(SkipOnParentOutdatedRule),
                    WaitingOnAssetsRuleEvaluationData(
                        frozenset_if_set(unpacked_dict["waiting_on_asset_keys"])))}
      [] klass = "MaxMaterializationsExceededAutoMaterializeCondition"
            -> {AutoMaterializeRuleEvaluation(
                    to_snapshot(DiscardOnMaxMaterializationsExceededRule(1)), NoData)}
      [] OTHER -> {AutoMaterializeRuleEvaluation(to_snapshot(MaterializeOnMissingRule), NoData)}

\* BackcompatAutoMaterializeConditionSerializer.unpack: the set holding the
\* rule evaluation, or the empty set when check.failed raises
unpack(klass, unpacked_dict) ==
    CASE klass \in {"FreshnessAutoMaterializeCondition",
                    "DownstreamFreshnessAutoMaterializeCondition"}
            -> {AutoMaterializeRuleEvaluation(
                    to_snapshot(MaterializeOnRequiredForFreshnessRule), NoData)}
      [] klass = "MissingAutoMaterializeCondition"
            -> {AutoMaterializeRuleEvaluation(to_snapshot(MaterializeOnMissingRule), NoData)}
      [] klass = "ParentMaterializedAutoMaterializeCondition"
            -> {AutoMaterializeRuleEvaluation(
                    to_snapshot(MaterializeOnParentUpdatedRule),
                    ParentUpdatedRuleEvaluationData(
                        frozenset_if_set(unpacked_dict["updated_asset_keys"]),
                        frozenset_if_set(unpacked_dict["will_update_asset_keys"])))}
      [] klass = "ParentOutdatedAutoMaterializeCondition"
            -> {AutoMaterializeRuleEvaluation(
                    to_snapshot(SkipOnParentOutdatedRule),
                    WaitingOnAssetsRuleEvaluationData(
                        frozenset_if_set(unpacked_dict["waiting_on_asset_keys"])))}
      [] klass = "MaxMaterializationsExceededAutoMaterializeCondition"
            -> {AutoMaterializeRuleEvaluation(
                    to_snapshot(DiscardOnMaxMaterializationsExceededRule(1)), NoData)}
      [] OTHER -> {}

\* ---------------------------------------------------- RuleEvaluationContext
\* dict.get(key): the set holding the value, or the empty set for None
dict_get(mapping, key) == IF key \in DOMAIN mapping THEN {mapping[key]} ELSE {}

\* dict.get(key, set())
dict_get_set(mapping, key) == IF key \in DOMAIN mapping THEN mapping[key] ELSE {}

RuleEvaluationContext(asset_key, cur, will_materialize_mapping, candidates) ==
    [asset_key |-> asset_key, cursor |-> cur,
     will_materialize_mapping |-> will_materialize_mapping, candidates |-> candidates]

\* a lookup of the latest evaluation under the key of another asset
latest_evaluation_of_first_asset(context) ==
    dict_get(context.cursor.latest_evaluation_by_asset_key, "A")

\* RuleEvaluationContext.previous_tick_evaluation (a set of at most one record)
previous_tick_evaluation(context) ==
    dict_get(context.cursor.latest_evaluation_by_asset_key, context.asset_key)

previous_tick_requested_or_discarded_asset_partitions(context) ==
    UNION {get_requested_or_discarded_asset_partitions(evaluation) :
            evaluation \in previous_tick_evaluation(context)}

previous_tick_evaluated_asset_partitions(context) ==
    UNION {get_evaluated_asset_partitions(evaluation) :
            evaluation \in previous_tick_evaluation(context)}

get_previous_tick_results(context, rule) ==
    UNION {get_rule_evaluation_results(evaluation, to_snapshot(rule)) :
            evaluation \in previous_tick_evaluation(context)}

\* the candidates that the previous tick did evaluate
get_candidates_evaluated_on_previous_tick(context) ==
    context.candidates \cap previous_tick_evaluated_asset_partitions(context)

get_candidates_not_evaluated_by_rule_on_previous_tick(context) ==
    context.candidates \ previous_tick_evaluated_asset_partitions(context)

\* a test that looks at the event log only
materialized_since_previous_tick(context, asset_partition) ==
    asset_partition_has_materialization_or_observation(asset_partition,
        context.cursor.latest_storage_id)

materialized_requested_or_discarded_since_previous_tick(context, asset_partition) ==
    IF asset_partition \in previous_tick_requested_or_discarded_asset_partitions(context)
    THEN TRUE
    ELSE asset_partition_has_materialization_or_observation(asset_partition,
            context.cursor.latest_storage_id)

\* the daemon evaluates an ExternalAssetGraph
is_external_asset_graph == TRUE

\* a test that does not look at the repositories of the two assets
materializable_in_one_run_of_any_repository(child_key, parent_key) ==
    /\ child_key \in materializable_asset_keys
    /\ parent_key \in materializable_asset_keys
    /\ have_same_partitioning(child_key, parent_key)
    /\ \/ ~is_partitioned(parent_key)
       \/ get_partition_mapping(child_key, parent_key)
            \in {"TimeWindowPartitionMapping", "IdentityPartitionMapping"}

materializable_in_same_run(child_key, parent_key) ==
    /\ child_key \in materializable_asset_keys
    /\ parent_key \in materializable_asset_keys
    /\ have_same_partitioning(child_key, parent_key)
    /\ \/ ~is_partitioned(parent_key)
       \/ get_partition_mapping(child_key, parent_key)
            \in {"TimeWindowPartitionMapping", "IdentityPartitionMapping"}
    /\ \/ ~is_external_asset_graph
       \/ get_repository_handle(child_key) = get_repository_handle(parent_key)

get_parents_that_will_not_be_materialized_on_current_tick(context, asset_partition) ==
    {parent \in get_parents_partitions(asset_partition[1], asset_partition[2]) :
        \/ parent \notin dict_get_set(context.will_materialize_mapping, parent[1])
        \/ ~materializable_in_same_run(asset_partition[1], parent[1])}

get_asset_partitions_with_updated_parents(context) ==
    get_asset_partitions_with_newly_updated_parents_for_key(context.cursor, context.asset_key)

\* a mapping built from every other asset's requested partitions, parent or not
will_update_mapping_of_all_assets(context) ==
    LET same_run_keys == {other_key \in AssetKeys \ {context.asset_key} :
                            materializable_in_same_run(context.asset_key, other_key)}
        will_update(other_key) ==
            {AssetKeyPartitionKey(context.asset_key, other_partition[2]) :
                other_partition \in dict_get_set(context.will_materialize_mapping, other_key)}
    IN  [asset_partition \in UNION {will_update(other_key) : other_key \in same_run_keys}
            |-> {other_key \in same_run_keys : asset_partition \in will_update(other_key)}]

\* RuleEvaluationContext.get_will_update_parent_mapping: a function from the
\* asset partitions that are its keys to their sets of parent keys
get_will_update_parent_mapping(context) ==
    LET same_run_parents == {parent_key \in get_parents(context.asset_key) :
                                materializable_in_same_run(context.asset_key, parent_key)}
        will_update(parent_key) ==
            {AssetKeyPartitionKey(context.asset_key, parent_partition[2]) :
                parent_partition \in dict_get_set(context.will_materialize_mapping, parent_key)}
    IN  [asset_partition \in UNION {will_update(parent_key) : parent_key \in same_run_parents}
            |-> {parent_key \in same_run_parents : asset_partition \in will_update(parent_key)}]

\* a narrowing that takes no candidate for its parents having changed
get_no_candidates_for_their_parents(context) == context.candidates \cap {}

get_candidates_with_updated_or_will_update_parents(context) ==
    LET updated_parents == get_asset_partitions_with_updated_parents(context)
        will_update_parents == DOMAIN get_will_update_parent_mapping(context)
    IN  context.candidates \cap (updated_parents \cup will_update_parents)


\* ----------------------------------------------------------------- rules
\* A rule's result, RuleEvaluationResults, is the set of its (evaluation
\* data, asset partitions) pairs: the items of a dict keyed by the data.

\* a combinator that adds the previous tick's data whether or not the
\* partition has data of this tick
add_previous_data_without_precedence(rule, context, asset_partitions_by_evaluation_data, use_past_data) ==
    LET previous == get_previous_tick_results(context, rule)
        this_tick(evaluation_data) ==
            UNION {item[2] : item \in {i \in asset_partitions_by_evaluation_data :
                                        i[1] = evaluation_data}}
        carried(evaluation_data) ==
            {ap \in UNION {item[2] : item \in {i \in previous : i[1] = evaluation_data}} :
                ap \in use_past_data}
        keys == {item[1] : item \in asset_partitions_by_evaluation_data}
                \cup {item[1] : item \in {i \in previous : carried(i[1]) # {}}}
    IN  {<<evaluation_data, this_tick(evaluation_data) \cup carried(evaluation_data)>> :
            evaluation_data \in keys}

\* a combinator that returns the data of this tick and nothing of the previous tick's
only_data_of_this_tick(rule, context, asset_partitions_by_evaluation_data, use_past_data) ==
    {item \in asset_partitions_by_evaluation_data : item[2] # {}}

\* a combinator that adds the previous tick's data for every asset partition
\* without data of this tick, whatever should_use_past_data_fn says of it
add_previous_data_whatever_the_predicate(rule, context, asset_partitions_by_evaluation_data, use_past_data) ==
    LET evaluated_asset_partitions ==
            UNION {item[2] : item \in asset_partitions_by_evaluation_data}
        previous == get_previous_tick_results(context, rule)
        this_tick(evaluation_data) ==
            UNION {item[2] : item \in {i \in asset_partitions_by_evaluation_data :
                                        i[1] = evaluation_data}}
        carried(evaluation_data) ==
            {ap \in UNION {item[2] : item \in {i \in previous : i[1] = evaluation_data}} :
                ap \notin evaluated_asset_partitions}
        keys == {item[1] : item \in asset_partitions_by_evaluation_data}
                \cup {item[1] : item \in {i \in previous : carried(i[1]) # {}}}
    IN  {<<evaluation_data, this_tick(evaluation_data) \cup carried(evaluation_data)>> :
            evaluation_data \in keys}

\* AutoMaterializeRule.add_evaluation_data_from_previous_tick;
\* use_past_data is the set of asset partitions should_use_past_data_fn holds for
add_evaluation_data_from_previous_tick(rule, context, asset_partitions_by_evaluation_data, use_past_data) ==
    LET evaluated_asset_partitions ==
            UNION {item[2] : item \in asset_partitions_by_evaluation_data}
        previous == get_previous_tick_results(context, rule)
        this_tick(evaluation_data) ==
            UNION {item[2] : item \in {i \in asset_partitions_by_evaluation_data :
                                        i[1] = evaluation_data}}
        carried(evaluation_data) ==
            {ap \in UNION {item[2] : item \in {i \in previous : i[1] = evaluation_data}} :
                ap \notin evaluated_asset_partitions /\ ap \in use_past_data}
        keys == {item[1] : item \in asset_partitions_by_evaluation_data}
                \cup {item[1] : item \in {i \in previous : carried(i[1]) # {}}}
    IN  {<<evaluation_data, this_tick(evaluation_data) \cup carried(evaluation_data)>> :
            evaluation_data \in keys}

\* a parent updated rule that counts the asset among its own updated parents
MaterializeOnParentUpdatedRule_counting_own_key(context) ==
    LET will_update_parents_by_asset_partition == get_will_update_parent_mapping(context)
        has_or_will_update ==
            get_asset_partitions_with_updated_parents(context)
            \cup DOMAIN will_update_parents_by_asset_partition
        updated_parents(asset_partition) ==
            {parent[1] : parent \in get_parent_asset_partitions_updated_after_child(
                asset_partition,
                get_parents_partitions(asset_partition[1], asset_partition[2]),
                {})}
        will_update_parents(asset_partition) ==
            dict_get_set(will_update_parents_by_asset_partition, asset_partition)
        data(asset_partition) ==
            ParentUpdatedRuleEvaluationData(updated_parents(asset_partition),
                                            will_update_parents(asset_partition))
        fired == {asset_partition \in has_or_will_update :
                    updated_parents(asset_partition) # {}
                    \/ will_update_parents(asset_partition) # {}}
        asset_partitions_by_evaluation_data ==
            {<<d, {asset_partition \in fired : data(asset_partition) = d}>> :
                d \in {data(asset_partition) : asset_partition \in fired}}
    IN  add_evaluation_data_from_previous_tick(MaterializeOnParentUpdatedRule, context,
            asset_partitions_by_evaluation_data,
            {ap \in AllAssetPartitions :
                ~materialized_requested_or_discarded_since_previous_tick(context, ap)})

\* MaterializeOnParentUpdatedRule.evaluate_for_asset
MaterializeOnParentUpdatedRule_evaluate_for_asset(context) ==
    LET will_update_parents_by_asset_partition == get_will_update_parent_mapping(context)
        has_or_will_update ==
            get_asset_partitions_with_updated_parents(context)
            \cup DOMAIN will_update_parents_by_asset_partition
        updated_parents(asset_partition) ==
            {parent[1] : parent \in get_parent_asset_partitions_updated_after_child(
                asset_partition,
                get_parents_partitions(asset_partition[1], asset_partition[2]),
                {context.asset_key})}
        will_update_parents(asset_partition) ==
            dict_get_set(will_update_parents_by_asset_partition, asset_partition)
        data(asset_partition) ==
            ParentUpdatedRuleEvaluationData(updated_parents(asset_partition),
                                            will_update_parents(asset_partition))
        fired == {asset_partition \in has_or_will_update :
                    updated_parents(asset_partition) # {}
                    \/ will_update_parents(asset_partition) # {}}
        asset_partitions_by_evaluation_data ==
            {<<d, {asset_partition \in fired : data(asset_partition) = d}>> :
                d \in {data(asset_partition) : asset_partition \in fired}}
    IN  add_evaluation_data_from_previous_tick(MaterializeOnParentUpdatedRule, context,
            asset_partitions_by_evaluation_data,
            {ap \in AllAssetPartitions :
                ~materialized_requested_or_discarded_since_previous_tick(context, ap)})

\* a missing rule that reports only what it finds missing on this tick
MaterializeOnMissingRule_without_past_data(context) ==
    LET missing_asset_partitions ==
            get_never_handled_root_asset_partitions_for_key(context.cursor, context.asset_key)
            \cup {candidate \in get_asset_partitions_with_newly_updated_parents_for_key(
                                    context.cursor, context.asset_key) :
                    ~asset_partition_has_materialization_or_observation(candidate, 0)}
    IN  IF missing_asset_partitions # {} THEN {<<NoData, missing_asset_partitions>>} ELSE {}

\* MaterializeOnMissingRule.evaluate_for_asset
MaterializeOnMissingRule_evaluate_for_asset(context) ==
    LET missing_asset_partitions ==
            get_never_handled_root_asset_partitions_for_key(context.cursor, context.asset_key)
            \cup {candidate \in get_asset_partitions_with_newly_updated_parents_for_key(
                                    context.cursor, context.asset_key) :
                    ~asset_partition_has_materialization_or_observation(candidate, 0)}
        asset_partitions_by_evaluation_data ==
            IF missing_asset_partitions # {} THEN {<<NoData, missing_asset_partitions>>} ELSE {}
    IN  add_evaluation_data_from_previous_tick(MaterializeOnMissingRule, context,
            asset_partitions_by_evaluation_data,
            {ap \in AllAssetPartitions :
                /\ ap \notin missing_asset_partitions
                /\ ~materialized_requested_or_discarded_since_previous_tick(context, ap)})

\* the source assets of the graph are those no run can materialize
is_source(asset_key) == asset_key \notin materializable_asset_keys

\* the source asset of deployment 8 can be observed
is_observable(asset_key) == deployment = 8 /\ is_source(asset_key)

\* a parent missing rule that looks at every parent, about to be materialized or not
SkipOnParentMissingRule_of_every_parent(context) ==
    LET candidates_to_evaluate ==
            get_candidates_not_evaluated_by_rule_on_previous_tick(context)
            \cup get_candidates_with_updated_or_will_update_parents(context)
        missing_parent_asset_keys(candidate) ==
            {parent[1] : parent \in
                {p \in get_parents_partitions(candidate[1], candidate[2]) :
                    /\ ~(is_source(p[1]) /\ ~is_observable(p[1]))
                    /\ ~asset_partition_has_materialization_or_observation(p, 0)}}
        fired == {candidate \in candidates_to_evaluate : missing_parent_asset_keys(candidate) # {}}
        asset_partitions_by_evaluation_data ==
            {<<WaitingOnAssetsRuleEvaluationData(keys),
               {candidate \in fired : missing_parent_asset_keys(candidate) = keys}>> :
                keys \in {missing_parent_asset_keys(candidate) : candidate \in fired}}
    IN  add_evaluation_data_from_previous_tick(SkipOnParentMissingRule, context,
            asset_partitions_by_evaluation_data,
            {ap \in AllAssetPartitions : ap \notin candidates_to_evaluate})

\* SkipOnParentMissingRule.evaluate_for_asset
SkipOnParentMissingRule_evaluate_for_asset(context) ==
    LET candidates_to_evaluate ==
            get_candidates_not_evaluated_by_rule_on_previous_tick(context)
            \cup get_candidates_with_updated_or_will_update_parents(context)
        missing_parent_asset_keys(candidate) ==
            {parent[1] : parent \in
                {p \in get_parents_that_will_not_be_materialized_on_current_tick(context, candidate) :
                    /\ ~(is_source(p[1]) /\ ~is_observable(p[1]))
                    /\ ~asset_partition_has_materialization_or_observation(p, 0)}}
        fired == {candidate \in candidates_to_evaluate : missing_parent_asset_keys(candidate) # {}}
        asset_partitions_by_evaluation_data ==
            {<<WaitingOnAssetsRuleEvaluationData(keys),
               {candidate \in fired : missing_parent_asset_keys(candidate) = keys}>> :
                keys \in {missing_parent_asset_keys(candidate) : candidate \in fired}}
    IN  add_evaluation_data_from_previous_tick(SkipOnParentMissingRule, context,
            asset_partitions_by_evaluation_data,
            {ap \in AllAssetPartitions : ap \notin candidates_to_evaluate})

\* a parent outdated rule that ignores no partition mapping
SkipOnParentOutdatedRule_ignoring_no_mapping(context) ==
    LET candidates_to_evaluate ==
            get_candidates_not_evaluated_by_rule_on_previous_tick(context)
            \cup get_candidates_with_updated_or_will_update_parents(context)
        outdated_ancestors(candidate) ==
            UNION {get_outdated_ancestors(parent) : parent \in
                {p \in get_parents_that_will_not_be_materialized_on_current_tick(context, candidate) :
                    TRUE}}
        fired == {candidate \in candidates_to_evaluate : outdated_ancestors(candidate) # {}}
        asset_partitions_by_evaluation_data ==
            {<<WaitingOnAssetsRuleEvaluationData(keys),
               {candidate \in fired : outdated_ancestors(candidate) = keys}>> :
                keys \in {outdated_ancestors(candidate) : candidate \in fired}}
    IN  add_evaluation_data_from_previous_tick(SkipOnParentOutdatedRule, context,
            asset_partitions_by_evaluation_data,
            {ap \in AllAssetPartitions : ap \notin candidates_to_evaluate})

\* SkipOnParentOutdatedRule.evaluate_for_asset
SkipOnParentOutdatedRule_evaluate_for_asset(context) ==
    LET candidates_to_evaluate ==
            get_candidates_not_evaluated_by_rule_on_previous_tick(context)
            \cup get_candidates_with_updated_or_will_update_parents(context)
        outdated_ancestors(candidate) ==
            UNION {get_outdated_ancestors(parent) : parent \in
                {p \in get_parents_that_will_not_be_materialized_on_current_tick(context, candidate) :
                    ~have_ignorable_partition_mapping_for_outdated(candidate[1], p[1])}}
        fired == {candidate \in candidates_to_evaluate : outdated_ancestors(candidate) # {}}
        asset_partitions_by_evaluation_data ==
            {<<WaitingOnAssetsRuleEvaluationData(keys),
               {candidate \in fired : outdated_ancestors(candidate) = keys}>> :
                keys \in {outdated_ancestors(candidate) : candidate \in fired}}
    IN  add_evaluation_data_from_previous_tick(SkipOnParentOutdatedRule, context,
            asset_partitions_by_evaluation_data,
            {ap \in AllAssetPartitions : ap \notin candidates_to_evaluate})

\* RuleEvaluationContext.get_asset_partitions_by_asset_key(...).get(asset_key)
get_asset_partitions_by_asset_key(asset_partitions, asset_key) ==
    {asset_partition \in asset_partitions : asset_partition[1] = asset_key}

\* a rule that also waits on the past partitions of the asset itself
SkipOnNotAllParentsUpdatedRule_waiting_on_own_key(rule, context) ==
    LET candidates_to_evaluate ==
            get_candidates_not_evaluated_by_rule_on_previous_tick(context)
            \cup get_candidates_with_updated_or_will_update_parents(context)
        parent_partitions(candidate) == get_parents_partitions(context.asset_key, candidate[2])
        updated_parent_partitions(candidate) ==
            get_parent_asset_partitions_updated_after_child(candidate,
                parent_partitions(candidate), {})
            \cup UNION {dict_get_set(context.will_materialize_mapping, parent) :
                            parent \in get_parents(context.asset_key)}
        non_updated_parent_keys(candidate) ==
            (IF rule.field = 1
             THEN {parent[1] : parent \in
                        parent_partitions(candidate) \ updated_parent_partitions(candidate)}
             ELSE {parent \in get_parents(context.asset_key) :
                        get_asset_partitions_by_asset_key(updated_parent_partitions(candidate),
                                                          parent) = {}})
            \ {}
        fired == {candidate \in candidates_to_evaluate : non_updated_parent_keys(candidate) # {}}
        asset_partitions_by_evaluation_data ==
            {<<WaitingOnAssetsRuleEvaluationData(keys),
               {candidate \in fired : non_updated_parent_keys(candidate) = keys}>> :
                keys \in {non_updated_parent_keys(candidate) : candidate \in fired}}
    IN  add_evaluation_data_from_previous_tick(rule, context,
            asset_partitions_by_evaluation_data,
            {ap \in AllAssetPartitions : ap \notin candidates_to_evaluate})

\* a rule whose lenient mode looks at the event log only, not at the
\* partitions that will materialize on this tick
SkipOnNotAllParentsUpdatedRule_lenient_on_log_only(rule, context) ==
    LET candidates_to_evaluate ==
            get_candidates_not_evaluated_by_rule_on_previous_tick(context)
            \cup get_candidates_with_updated_or_will_update_parents(context)
        parent_partitions(candidate) == get_parents_partitions(context.asset_key, candidate[2])
        updated_after_child(candidate) ==
            get_parent_asset_partitions_updated_after_child(candidate,
                parent_partitions(candidate), {})
        updated_parent_partitions(candidate) ==
            updated_after_child(candidate)
            \cup UNION {dict_get_set(context.will_materialize_mapping, parent) :
                            parent \in get_parents(context.asset_key)}
        non_updated_parent_keys(candidate) ==
            (IF rule.field = 1
             THEN {parent[1] : parent \in
                        parent_partitions(candidate) \ updated_parent_partitions(candidate)}
             ELSE {parent \in get_parents(context.asset_key) :
                        get_asset_partitions_by_asset_key(updated_after_child(candidate),
                                                          parent) = {}})
            \ {context.asset_key}
        fired == {candidate \in candidates_to_evaluate : non_updated_parent_keys(candidate) # {}}
        asset_partitions_by_evaluation_data ==
            {<<WaitingOnAssetsRuleEvaluationData(keys),
               {candidate \in fired : non_updated_parent_keys(candidate) = keys}>> :
                keys \in {non_updated_parent_keys(candidate) : candidate \in fired}}
    IN  add_evaluation_data_from_previous_tick(rule, context,
            asset_partitions_by_evaluation_data,
            {ap \in AllAssetPartitions : ap \notin candidates_to_evaluate})

\* SkipOnNotAllParentsUpdatedRule.evaluate_for_asset
SkipOnNotAllParentsUpdatedRule_evaluate_for_asset(rule, context) ==
    LET candidates_to_evaluate ==
            get_candidates_not_evaluated_by_rule_on_previous_tick(context)
            \cup get_candidates_with_updated_or_will_update_parents(context)
        parent_partitions(candidate) == get_parents_partitions(context.asset_key, candidate[2])
        updated_parent_partitions(candidate) ==
            get_parent_asset_partitions_updated_after_child(candidate,
                parent_partitions(candidate), {})
            \cup UNION {dict_get_set(context.will_materialize_mapping, parent) :
                            parent \in get_parents(context.asset_key)}
        non_updated_parent_keys(candidate) ==
            (IF rule.field = 1
             THEN {parent[1] : parent \in
                        parent_partitions(candidate) \ updated_parent_partitions(candidate)}
             ELSE {parent \in get_parents(context.asset_key) :
                        get_asset_partitions_by_asset_key(updated_parent_partitions(candidate),
                                                          parent) = {}})
            \ {context.asset_key}
        fired == {candidate \in candidates_to_evaluate : non_updated_parent_keys(candidate) # {}}
        asset_partitions_by_evaluation_data ==
            {<<WaitingOnAssetsRuleEvaluationData(keys),
               {candidate \in fired : non_updated_parent_keys(candidate) = keys}>> :
                keys \in {non_updated_parent_keys(candidate) : candidate \in fired}}
    IN  add_evaluation_data_from_previous_tick(rule, context,
            asset_partitions_by_evaluation_data,
            {ap \in AllAssetPartitions : ap \notin candidates_to_evaluate})

\* SkipOnRequiredButNonexistentParentsRule.evaluate_for_asset
SkipOnRequiredButNonexistentParentsRule_evaluate_for_asset(context) ==
    LET candidates_to_evaluate == get_candidates_not_evaluated_by_rule_on_previous_tick(context)
        nonexistent_parent_keys(candidate) ==
            {parent[1] : parent \in
                required_but_nonexistent_parents_partitions(candidate[1], candidate[2])}
        fired == {candidate \in candidates_to_evaluate : nonexistent_parent_keys(candidate) # {}}
        asset_partitions_by_evaluation_data ==
            {<<WaitingOnAssetsRuleEvaluationData(keys),
               {candidate \in fired : nonexistent_parent_keys(candidate) = keys}>> :
                keys \in {nonexistent_parent_keys(candidate) : candidate \in fired}}
    IN  add_evaluation_data_from_previous_tick(SkipOnRequiredButNonexistentParentsRule, context,
            asset_partitions_by_evaluation_data,
            {ap \in AllAssetPartitions : ap \notin candidates_to_evaluate})

\* a backfill rule that looks at the targeted partitions whatever all_partitions is
SkipOnBackfillInProgressRule_targeted_only(rule, context) ==
    LET backfill_in_progress_candidates ==
            {candidate \in context.candidates :
                candidate \in get_active_backfill_target_asset_graph_subset}
    IN  IF backfill_in_progress_candidates # {}
        THEN {<<NoData, backfill_in_progress_candidates>>}
        ELSE {}

\* SkipOnBackfillInProgressRule.evaluate_for_asset
SkipOnBackfillInProgressRule_evaluate_for_asset(rule, context) ==
    LET backfilling_subset == get_active_backfill_target_asset_graph_subset
        backfill_in_progress_candidates ==
            IF rule.field = 1
            THEN {candidate \in context.candidates :
                    candidate[1] \in {ap[1] : ap \in backfilling_subset}}
            ELSE {candidate \in context.candidates : candidate \in backfilling_subset}
    IN  IF backfill_in_progress_candidates # {}
        THEN {<<NoData, backfill_in_progress_candidates>>}
        ELSE {}

\* the place of a partition key in a set's iteration order
index_of(iteration_order, partition_key) ==
    IF partition_key = NoPartitionKey
    THEN 0
    ELSE CHOOSE i \in 1..Len(iteration_order) : iteration_order[i] = partition_key

\* list(candidates): the 0-based place of a candidate when the candidates are
\* not sorted
unsorted_index(candidates, iteration_order, candidate) ==
    Cardinality({other \in candidates :
        index_of(iteration_order, other[2]) < index_of(iteration_order, candidate[2])})

\* sorted(candidates, key=sort_key_for_asset_partition): the 0-based place of
\* a candidate in the stable sort of the candidates listed in iteration order
sorted_index(candidates, iteration_order, candidate) ==
    Cardinality({other \in candidates :
        \/ sort_key_for_asset_partition(other) < sort_key_for_asset_partition(candidate)
        \/ /\ sort_key_for_asset_partition(other) = sort_key_for_asset_partition(candidate)
           /\ index_of(iteration_order, other[2]) < index_of(iteration_order, candidate[2])})

\* a discard rule whose slice starts one place late
DiscardOnMaxMaterializationsExceededRule_slice_after_limit(rule, context, iteration_order) ==
    LET rate_limited_asset_partitions ==
            {candidate \in context.candidates :
                sorted_index(context.candidates, iteration_order, candidate) > rule.field}
    IN  IF rate_limited_asset_partitions # {}
        THEN {<<NoData, rate_limited_asset_partitions>>}
        ELSE {}

\* DiscardOnMaxMaterializationsExceededRule.evaluate_for_asset
DiscardOnMaxMaterializationsExceededRule_evaluate_for_asset(rule, context, iteration_order) ==
    LET rate_limited_asset_partitions ==
            {candidate \in context.candidates :
                sorted_index(context.candidates, iteration_order, candidate) >= rule.field}
    IN  IF rate_limited_asset_partitions # {}
        THEN {<<NoData, rate_limited_asset_partitions>>}
        ELSE {}

\* rule.evaluate_for_asset(context), dispatched on the rule's class
evaluate_for_asset(rule, context, iteration_order) ==
    CASE rule.class_name = "MaterializeOnParentUpdatedRule"
            -> MaterializeOnParentUpdatedRule_evaluate_for_asset(context)
      [] rule.class_name = "MaterializeOnMissingRule"
            -> MaterializeOnMissingRule_evaluate_for_asset(context)
      [] rule.class_name = "SkipOnParentOutdatedRule"
            -> SkipOnParentOutdatedRule_evaluate_for_asset(context)
      [] rule.class_name = "SkipOnParentMissingRule"
            -> SkipOnParentMissingRule_evaluate_for_asset(context)
      [] rule.class_name = "SkipOnNotAllParentsUpdatedRule"
            -> SkipOnNotAllParentsUpdatedRule_evaluate_for_asset(rule, context)
      [] rule.class_name = "SkipOnRequiredButNonexistentParentsRule"
            -> SkipOnRequiredButNonexistentParentsRule_evaluate_for_asset(context)
      [] rule.class_name = "SkipOnBackfillInProgressRule"
            -> SkipOnBackfillInProgressRule_evaluate_for_asset(rule, context)
      [] rule.class_name = "DiscardOnMaxMaterializationsExceededRule"
            -> DiscardOnMaxMaterializationsExceededRule_evaluate_for_asset(rule, context,
                                                                           iteration_order)


\* ------------------------------------------------------ evaluation pipeline
\* the orders a set can be run through or iterated in
Orders(S) ==
    {order \in [1..Cardinality(S) -> S] :
        \A i, j \in 1..Cardinality(S) : i # j => order[i] # order[j]}

\* the candidates of the three stages
materialize_candidates(asset_key) == asset_partitions_of(asset_key)

\* skip rules that are shown only what no earlier skip rule has skipped
skip_candidates_not_yet_skipped(to_materialize, to_skip) == to_materialize \ to_skip

skip_candidates(to_materialize, to_skip) == to_materialize

\* discard rules that are shown the skipped candidates too
discard_candidates_with_skipped(to_materialize, to_skip) == to_materialize

discard_candidates(to_materialize, to_skip) == to_materialize \ to_skip

\* the candidates the pipeline gives a rule, from what the rules run before it returned
candidates_for_rule(rule, asset_key, so_far) ==
    CASE decision_type(rule) = MATERIALIZE -> materialize_candidates(asset_key)
      [] decision_type(rule) = SKIP -> skip_candidates(so_far.to_materialize, so_far.to_skip)
      [] decision_type(rule) = DISCARD
            -> discard_candidates(so_far.to_materialize, so_far.to_skip)

\* what the pipeline holds after a rule has returned
with_returned(so_far, rule, returned) ==
    LET asset_partitions == UNION {item[2] : item \in returned}
    IN  [results |-> so_far.results \cup
            {<<AutoMaterializeRuleEvaluation(to_snapshot(rule), item[1]), item[2]>> :
                item \in returned},
         to_materialize |-> IF decision_type(rule) = MATERIALIZE
                            THEN so_far.to_materialize \cup asset_partitions
                            ELSE so_far.to_materialize,
         to_skip |-> IF decision_type(rule) = SKIP
                     THEN so_far.to_skip \cup asset_partitions
                     ELSE so_far.to_skip,
         to_discard |-> IF decision_type(rule) = DISCARD
                        THEN so_far.to_discard \cup asset_partitions
                        ELSE so_far.to_discard]

\* the rules run one after the other, each on the context the pipeline gives it
RECURSIVE evaluate_rules(_, _, _, _, _, _)
evaluate_rules(order, asset_key, cur, will_materialize_mapping, iteration_order, so_far) ==
    IF order = <<>>
    THEN so_far
    ELSE evaluate_rules(Tail(order), asset_key, cur, will_materialize_mapping, iteration_order,
            with_returned(so_far, Head(order),
                evaluate_for_asset(Head(order),
                    RuleEvaluationContext(asset_key, cur, will_materialize_mapping,
                        candidates_for_rule(Head(order), asset_key, so_far)),
                    iteration_order)))

NothingEvaluated == [results |-> {}, to_materialize |-> {}, to_skip |-> {}, to_discard |-> {}]

\* a requested set that forgets the skip rules
requested_ignoring_skips(to_materialize, to_skip, to_discard) == to_materialize \ to_discard

\* the final requested set
requested_asset_partitions(to_materialize, to_skip, to_discard) ==
    (to_materialize \ to_skip) \ to_discard

\* the record and the sets one asset's evaluation ends with
evaluation_result(asset_key, evaluated) ==
    [evaluation |-> from_rule_evaluation_results(asset_key, evaluated.results,
                        Cardinality(requested_asset_partitions(evaluated.to_materialize,
                                        evaluated.to_skip, evaluated.to_discard)),
                        Cardinality(evaluated.to_skip \cap evaluated.to_materialize),
                        Cardinality(evaluated.to_discard)),
     to_materialize |-> evaluated.to_materialize,
     to_skip |-> evaluated.to_skip,
     to_discard |-> evaluated.to_discard,
     requested |-> requested_asset_partitions(evaluated.to_materialize, evaluated.to_skip,
                                              evaluated.to_discard)]

\* the order the rules of a policy are run in: materialize, skip, discard
rules_in_order(materialize_order, skip_order) ==
    materialize_order \o skip_order \o <<DiscardOnMaxMaterializationsExceededRule(Limit)>>

\* AssetDaemonContext.evaluate_asset: the materialize rules, then the skip
\* rules over their union, then the discard rules over what is left
evaluate_asset(asset_key, cur, will_materialize_mapping, materialize_order, skip_order, iteration_order) ==
    evaluation_result(asset_key,
        evaluate_rules(rules_in_order(materialize_order, skip_order), asset_key, cur,
                       will_materialize_mapping, iteration_order, NothingEvaluated))

\* ---------------------------------------------------------------- the tick
EmptyMapping == <<>>

AssetDaemonCursor(latest_evaluation_by_asset_key, latest_storage_id, handled_root_asset_partitions) ==
    [latest_evaluation_by_asset_key |-> latest_evaluation_by_asset_key,
     latest_storage_id |-> latest_storage_id,
     handled_root_asset_partitions |-> handled_root_asset_partitions]

\* the requested sets of the assets evaluated so far on this tick
will_materialize_mapping_of(evaluated) ==
    [asset_key \in DOMAIN evaluated |-> evaluated[asset_key].result.requested]

\* a commit that edits the records the cursor holds in place: the entries
\* stay, the counts are overwritten with those of the new tick
cursor_with_edited_records(cur, evaluated, storage_id) ==
    AssetDaemonCursor(
        [asset_key \in DOMAIN evaluated |->
            IF asset_key \in DOMAIN cur.latest_evaluation_by_asset_key
            THEN [cur.latest_evaluation_by_asset_key[asset_key] EXCEPT
                    !.num_requested = evaluated[asset_key].result.evaluation.num_requested,
                    !.num_skipped = evaluated[asset_key].result.evaluation.num_skipped,
                    !.num_discarded = evaluated[asset_key].result.evaluation.num_discarded]
            ELSE evaluated[asset_key].result.evaluation],
        storage_id,
        cur.handled_root_asset_partitions
            \cup UNION {evaluated[asset_key].result.requested
                            \cup evaluated[asset_key].result.to_discard :
                        asset_key \in {k \in DOMAIN evaluated : get_parents(k) = {}}})

\* the cursor a complete tick commits
cursor_with_updates(cur, evaluated, storage_id) ==
    AssetDaemonCursor(
        [asset_key \in DOMAIN evaluated |-> evaluated[asset_key].result.evaluation],
        storage_id,
        cur.handled_root_asset_partitions
            \cup UNION {evaluated[asset_key].result.requested
                        \cup evaluated[asset_key].result.to_discard :
                        asset_key \in {k \in DOMAIN evaluated : get_parents(k) = {}}})

\* no call of a single operation is being followed
NoCall == [op |-> "none"]
NotReturned == [done |-> FALSE]

\* the asset partitions a backfill can target
BackfillTargets == asset_partitions_of("B")

Init ==
    /\ b_partitioned \in BOOLEAN
    /\ partitions_def_version = 1
    /\ latest_materialization = [asset_partition \in AllAssetPartitions |-> 0]
    /\ last_storage_id = 0
    /\ backfill = {}
    /\ cursor = AssetDaemonCursor(EmptyMapping, 0, {})
    /\ phase = "idle"
    /\ pending = EmptyMapping
    /\ deployment = 1
    /\ outdated = {}
    /\ call = NoCall
    /\ call_result = NotReturned

\* no tick is in flight
Idle == phase \in {"idle", "failed"}

\* a run, launched by the daemon or by anyone else, materializes an asset partition
Materialize(asset_partition) ==
    /\ Idle
    /\ last_storage_id < MaxEvents
    /\ last_storage_id' = last_storage_id + 1
    /\ latest_materialization' =
            [latest_materialization EXCEPT ![asset_partition] = last_storage_id + 1]
    /\ phase' = "idle"
    /\ outdated' = outdated \ {asset_partition}
    /\ UNCHANGED <<b_partitioned, partitions_def_version, backfill, cursor, pending>>
    /\ UNCHANGED <<deployment, call, call_result>>

StartBackfill(asset_partition) ==
    /\ Idle
    /\ backfill = {}
    /\ backfill' = {asset_partition}
    /\ phase' = "idle"
    /\ UNCHANGED <<b_partitioned, partitions_def_version, latest_materialization,
                   last_storage_id, cursor, pending>>
    /\ UNCHANGED <<deployment, outdated, call, call_result>>

EndBackfill ==
    /\ Idle
    /\ backfill # {}
    /\ backfill' = {}
    /\ phase' = "idle"
    /\ UNCHANGED <<b_partitioned, partitions_def_version, latest_materialization,
                   last_storage_id, cursor, pending>>
    /\ UNCHANGED <<deployment, outdated, call, call_result>>

\* a new code version changes the partitions definition of the assets
ChangePartitionsDef ==
    /\ Idle
    /\ partitions_def_version < MaxDefVersion
    /\ partitions_def_version' = partitions_def_version + 1
    /\ phase' = "idle"
    /\ UNCHANGED <<b_partitioned, latest_materialization, last_storage_id, backfill, cursor,
                   pending>>
    /\ UNCHANGED <<deployment, outdated, call, call_result>>

BeginTick ==
    /\ Idle
    /\ phase' = "evaluating"
    /\ pending' = EmptyMapping
    /\ UNCHANGED <<b_partitioned, partitions_def_version, latest_materialization,
                   last_storage_id, backfill, cursor>>
    /\ UNCHANGED <<deployment, outdated, call, call_result>>

\* what the tick keeps of one asset's evaluation
evaluated_asset(asset_key, materialize_order, skip_order, iteration_order) ==
    [result |-> evaluate_asset(asset_key, cursor, will_materialize_mapping_of(pending),
                               materialize_order, skip_order, iteration_order),
     will_materialize_mapping |-> will_materialize_mapping_of(pending),
     previous_tick_evaluation |->
        previous_tick_evaluation(RuleEvaluationContext(asset_key, cursor, EmptyMapping, {}))]

EvaluateAsset(asset_key) ==
    /\ phase = "evaluating"
    /\ asset_key \notin DOMAIN pending
    /\ \E materialize_order \in Orders(materialize_rules), skip_order \in Orders(skip_rules),
          iteration_order \in Orders(PartitionKeys) :
            pending' = [k \in DOMAIN pending \cup {asset_key} |->
                            IF k = asset_key
                            THEN evaluated_asset(asset_key, materialize_order, skip_order,
                                                 iteration_order)
                            ELSE pending[k]]
    /\ UNCHANGED <<b_partitioned, partitions_def_version, latest_materialization,
                   last_storage_id, backfill, cursor, phase>>
    /\ UNCHANGED <<deployment, outdated, call, call_result>>

\* a failing tick that keeps the evaluations it has made
FailTick_keeping_evaluations ==
    /\ phase = "evaluating"
    /\ phase' = "failed"
    /\ pending' = EmptyMapping
    /\ cursor' = cursor_with_updates(cursor, pending, last_storage_id)
    /\ UNCHANGED <<b_partitioned, partitions_def_version, latest_materialization,
                   last_storage_id, backfill>>
    /\ UNCHANGED <<deployment, outdated, call, call_result>>

\* an external query fails: the tick ends, nothing is committed
FailTick ==
    /\ phase = "evaluating"
    /\ phase' = "failed"
    /\ pending' = EmptyMapping
    /\ UNCHANGED <<b_partitioned, partitions_def_version, latest_materialization,
                   last_storage_id, backfill, cursor>>
    /\ UNCHANGED <<deployment, outdated, call, call_result>>

\* a commit of whatever assets are evaluated so far
CommitTick_of_evaluated_assets ==
    /\ phase = "evaluating"
    /\ DOMAIN pending # {}
    /\ cursor' = cursor_with_updates(cursor, pending, last_storage_id)
    /\ phase' = "idle"
    /\ pending' = EmptyMapping
    /\ UNCHANGED <<b_partitioned, partitions_def_version, latest_materialization,
                   last_storage_id, backfill>>
    /\ UNCHANGED <<deployment, outdated, call, call_result>>

\* every asset is evaluated: the cursor is replaced
CommitTick ==
    /\ phase = "evaluating"
    /\ DOMAIN pending = AssetKeys
    /\ cursor' = cursor_with_updates(cursor, pending, last_storage_id)
    /\ phase' = "idle"
    /\ pending' = EmptyMapping
    /\ UNCHANGED <<b_partitioned, partitions_def_version, latest_materialization,
                   last_storage_id, backfill>>
    /\ UNCHANGED <<deployment, outdated, call, call_result>>

Next ==
    \/ \E asset_key \in AssetKeys : \E asset_partition \in asset_partitions_of(asset_key) :
            Materialize(asset_partition)
    \/ \E asset_partition \in BackfillTargets : StartBackfill(asset_partition)
    \/ EndBackfill
    \/ ChangePartitionsDef
    \/ BeginTick
    \/ \E asset_key \in AssetKeys : EvaluateAsset(asset_key)
    \/ FailTick
    \/ CommitTick

Spec == Init /\ [][Next]_vars

\* ----------------------------------------------------------- deployment 2
Deployment2Init ==
    /\ b_partitioned \in BOOLEAN
    /\ partitions_def_version = 1
    /\ latest_materialization = [asset_partition \in AllAssetPartitions |-> 0]
    /\ last_storage_id = 0
    /\ backfill = {}
    /\ cursor = AssetDaemonCursor(EmptyMapping, 0, {})
    /\ phase = "idle"
    /\ pending = EmptyMapping
    /\ deployment = 2
    /\ outdated = {}
    /\ call = NoCall
    /\ call_result = NotReturned

\* the source that a partition of A is computed from is observed to hold
\* newer data: the partition is out of date until it is materialized again
ObserveSource(asset_partition) ==
    /\ Idle
    /\ asset_partition \notin outdated
    /\ outdated' = outdated \cup {asset_partition}
    /\ phase' = "idle"
    /\ UNCHANGED <<b_partitioned, partitions_def_version, latest_materialization,
                   last_storage_id, backfill, cursor, pending, deployment, call, call_result>>

\* the rules of the policy in the one order this deployment runs them in
policy_order(rules) == CHOOSE order \in Orders(rules) : TRUE

EvaluateAssetInPolicyOrder(asset_key) ==
    /\ phase = "evaluating"
    /\ asset_key \notin DOMAIN pending
    /\ \E iteration_order \in Orders(PartitionKeys) :
            pending' = [k \in DOMAIN pending \cup {asset_key} |->
                            IF k = asset_key
                            THEN evaluated_asset(asset_key, policy_order(materialize_rules),
                                                 policy_order(skip_rules), iteration_order)
                            ELSE pending[k]]
    /\ UNCHANGED <<b_partitioned, partitions_def_version, latest_materialization,
                   last_storage_id, backfill, cursor, phase>>
    /\ UNCHANGED <<deployment, outdated, call, call_result>>

Deployment2Next ==
    \/ \E asset_key \in AssetKeys : \E asset_partition \in asset_partitions_of(asset_key) :
            Materialize(asset_partition)
    \/ \E asset_partition \in asset_partitions_of("A") : ObserveSource(asset_partition)
    \/ ChangePartitionsDef
    \/ BeginTick
    \/ \E asset_key \in AssetKeys : EvaluateAssetInPolicyOrder(asset_key)
    \/ FailTick
    \/ CommitTick

Deployment2Spec == Deployment2Init /\ [][Deployment2Next]_vars

\* ------------------------------------------------- deployments 1 and 3
\* the daemon before its first tick, the root partitioned or not
RootInit ==
    /\ b_partitioned \in BOOLEAN
    /\ partitions_def_version = 1
    /\ latest_materialization = [asset_partition \in AllAssetPartitions |-> 0]
    /\ last_storage_id = 0
    /\ backfill = {}
    /\ cursor = AssetDaemonCursor(EmptyMapping, 0, {})
    /\ phase = "idle"
    /\ pending = EmptyMapping
    /\ deployment \in {1, 3}
    /\ outdated = {}
    /\ call = NoCall
    /\ call_result = NotReturned

RootSpec == RootInit /\ [][Next]_vars


\* ------------------------------------------- single operations on arguments
\* A second specification follows one call of one operation of the module:
\* CallInit draws the operation, its arguments and the state it reads, and
\* the operation's action stores what it returns.

\* the record of a previous tick in which the rule fired for these asset partitions
evaluation_with_firing(asset_key, rule, evaluation_data, asset_partitions) ==
    from_rule_evaluation_results(asset_key,
        {<<AutoMaterializeRuleEvaluation(to_snapshot(rule), evaluation_data), asset_partitions>>},
        0, Cardinality(asset_partitions), 0)

\* the cursors a call is made under: no previous tick, or a previous tick
\* in which the rule fired for every partition of the asset
PreviousCursors(asset_key, rule) ==
    {AssetDaemonCursor(EmptyMapping, 0, {}),
     AssetDaemonCursor(
        [k \in {asset_key} |->
            evaluation_with_firing(asset_key, rule, NoData, asset_partitions_of(asset_key))],
        0, {})}

DiscardCalls ==
    [op : {"DiscardOnMaxMaterializationsExceededRule.evaluate_for_asset"},
     limit : 0..(MaxCandidates + 1),
     candidates : {{AssetKeyPartitionKey("B", partition_key) : partition_key \in partition_keys} :
                        partition_keys \in SUBSET (1..MaxCandidates)},
     iteration_order : Orders(1..MaxCandidates)]

BackfillCalls ==
    UNION {[op : {"SkipOnBackfillInProgressRule.evaluate_for_asset"},
            all_partitions : {0, 1},
            asset_key : {asset_key},
            candidates : SUBSET asset_partitions_of(asset_key)] : asset_key \in AssetKeys}

\* the rule evaluations of the records that are compared: two firings of
\* one rule whose evaluation data neither contains the other, and a firing
\* of another rule
CallRuleEvaluations ==
    {AutoMaterializeRuleEvaluation(to_snapshot(SkipOnParentMissingRule),
                                   WaitingOnAssetsRuleEvaluationData({asset_key})) :
        asset_key \in AssetKeys}
    \cup {AutoMaterializeRuleEvaluation(to_snapshot(MaterializeOnMissingRule), NoData)}

\* the strings a non-empty subset of the partition keys can serialize to:
\* its keys in any order
Serializations ==
    UNION {Orders(partition_keys) : partition_keys \in (SUBSET PartitionKeys) \ {{}}}

\* the subsets a record can hold: None when it was written for an
\* unpartitioned asset (tag 0), else strings tagged with a partitions definition
SerializedSubsets(tag) ==
    IF tag = 0 THEN {NoSubset}
    ELSE {[is_none |-> FALSE, partitions_def |-> tag, serialized_subset |-> serialized] :
            serialized \in Serializations}

\* the lists of at most max entries a record can hold: an entry for each
\* evaluation data of a rule, no partition under two entries of one rule
EntryLists(tag, max) ==
    UNION {{list \in [1..n -> CallRuleEvaluations \X SerializedSubsets(tag)] :
                \A i, j \in 1..n : i # j =>
                    /\ list[i][1] # list[j][1]
                    /\ list[i][1].rule_snapshot = list[j][1].rule_snapshot =>
                        /\ tag # 0
                        /\ deserialize(list[i][2]) \cap deserialize(list[j][2]) = {}} :
            n \in 0..max}

\* the lists of a record written under any partitions definition
StoredEntryLists == UNION {EntryLists(tag, MaxFirings) : tag \in 0..MaxDefVersion}

\* two records of B that differ at most in their lists of entries
ContentCalls ==
    {[op |-> "AutoMaterializeAssetEvaluation.equivalent_to_stored_evaluation",
      self |-> AutoMaterializeAssetEvaluation("B", lists[1], 0, 0, 0, rule_snapshots_of_deployment_1),
      stored_evaluation |->
            {AutoMaterializeAssetEvaluation("B", lists[2], 0, 0, 0, rule_snapshots_of_deployment_1)}] :
        lists \in StoredEntryLists \X StoredEntryLists}

\* the record of a tick that skipped partition 1 of B for one reason and
\* the stored record of a tick that skipped it for one reason: a Missing
\* firing, then the firing of a skip rule waiting on A
SkipReasonCalls ==
    {[op |-> "AutoMaterializeAssetEvaluation.equivalent_to_stored_evaluation",
      self |-> AutoMaterializeAssetEvaluation("B",
                    <<<<AutoMaterializeRuleEvaluation(to_snapshot(MaterializeOnMissingRule), NoData),
                        subsets[1]>>,
                      <<AutoMaterializeRuleEvaluation(to_snapshot(rules[1]),
                            WaitingOnAssetsRuleEvaluationData({"A"})), subsets[1]>>>>,
                    0, 1, 0, rule_snapshots_of_deployment_1),
      stored_evaluation |->
            {AutoMaterializeAssetEvaluation("B",
                    <<<<AutoMaterializeRuleEvaluation(to_snapshot(MaterializeOnMissingRule), NoData),
                        subsets[2]>>,
                      <<AutoMaterializeRuleEvaluation(to_snapshot(rules[2]),
                            WaitingOnAssetsRuleEvaluationData({"A"})), subsets[2]>>>>,
                    0, 1, 0, rule_snapshots_of_deployment_1)}] :
        rules \in {SkipOnParentMissingRule, SkipOnParentOutdatedRule}
                    \X {SkipOnParentMissingRule, SkipOnParentOutdatedRule},
        subsets \in SerializedSubsets(MaxDefVersion) \X SerializedSubsets(MaxDefVersion)}

\* the stored records a record with this list of entries is compared with
StoredRecordsWith(list) ==
    {{}} \cup
    {{AutoMaterializeAssetEvaluation(asset_key, list, stored_counts[1], stored_counts[2],
                                     stored_counts[3], snapshots)} :
        asset_key \in AssetKeys,
        stored_counts \in (0..1) \X (0..1) \X (0..1),
        snapshots \in {rule_snapshots_of_deployment_1, {}}}

\* a record of B and a stored record with the same list of entries, or none
CountCalls ==
    UNION {{[op |-> "AutoMaterializeAssetEvaluation.equivalent_to_stored_evaluation",
             self |-> AutoMaterializeAssetEvaluation("B", list, counts[1], counts[2], counts[3],
                                                     rule_snapshots_of_deployment_1),
             stored_evaluation |-> stored] :
                counts \in (0..1) \X (0..1) \X (0..1),
                stored \in StoredRecordsWith(list)} :
            list \in EntryLists(get_partitions_def("B"), 1)}

\* the rules, in the configurations a policy can hold them
ConfiguredRules ==
    {MaterializeOnRequiredForFreshnessRule, MaterializeOnParentUpdatedRule,
     MaterializeOnMissingRule, SkipOnParentOutdatedRule, SkipOnParentMissingRule,
     SkipOnRequiredButNonexistentParentsRule}
    \cup {SkipOnNotAllParentsUpdatedRule(flag) : flag \in 0..1}
    \cup {SkipOnBackfillInProgressRule(flag) : flag \in 0..1}
    \cup {DiscardOnMaxMaterializationsExceededRule(limit) : limit \in Limit..(Limit + 1)}

\* a rule reads the results of the previous tick, whose record holds a
\* firing of a rule for every partition of B
PreviousTickResultsCalls ==
    [op : {"RuleEvaluationContext.get_previous_tick_results"},
     rule : ConfiguredRules,
     recorded_by : ConfiguredRules]

\* two rules are compared and put into one set
EqCalls ==
    [op : {"AutoMaterializeRule.__eq__"}, self : ConfiguredRules, other : ConfiguredRules]

\* a stored condition of a retired class, or of a class that never
\* existed, is unpacked
UnpackCalls ==
    [op : {"BackcompatAutoMaterializeConditionSerializer.unpack"},
     klass : LegacyConditions \cup {"AutoMaterializeCondition"},
     unpacked_dict : [{"updated_asset_keys", "will_update_asset_keys", "waiting_on_asset_keys"}
                        -> UnpackedValues]]

\* the rule evaluations of the records that are read: firings of rules of
\* each decision type
ReadRuleEvaluations ==
    CallRuleEvaluations
    \cup {AutoMaterializeRuleEvaluation(to_snapshot(MaterializeOnParentUpdatedRule),
                                        ParentUpdatedRuleEvaluationData({"A"}, {})),
          AutoMaterializeRuleEvaluation(to_snapshot(DiscardOnMaxMaterializationsExceededRule(Limit)),
                                        NoData)}

\* the records of B a tick can find in the cursor: at most MaxFirings
\* entries, written while B was unpartitioned (tag 0) or partitioned under
\* some partitions definition
StoredRecords ==
    {AutoMaterializeAssetEvaluation("B", entries, 0, 0, 0, rule_snapshots_of_deployment_1) :
        entries \in UNION {{entries \in SUBSET (ReadRuleEvaluations \X SerializedSubsets(tag)) :
                                Cardinality(entries) <= MaxFirings} : tag \in 0..MaxDefVersion}}

\* a stored record is read against the current partitions definition of B
ReadCalls ==
    [op : {"AutoMaterializeAssetEvaluation.get_rule_evaluation_results"},
     evaluation : StoredRecords,
     rule_snapshot : {rule_evaluation.rule_snapshot : rule_evaluation \in ReadRuleEvaluations}]
    \cup [op : {"AutoMaterializeAssetEvaluation.get_requested_or_discarded_asset_partitions",
                "AutoMaterializeAssetEvaluation.get_evaluated_asset_partitions"},
          evaluation : StoredRecords]

\* a record is built from the firings of a tick: at most MaxFirings pairs
\* of a rule evaluation and a set of asset partitions of the asset, the
\* empty set among them, while the asset is partitioned or while it is not
FromRuleEvaluationResultsCalls ==
    UNION {[op : {"AutoMaterializeAssetEvaluation.from_rule_evaluation_results"},
            asset_key : {asset_key},
            asset_partitions_by_rule_evaluation :
                {firings \in SUBSET (ReadRuleEvaluations \X
                        SUBSET {AssetKeyPartitionKey(asset_key, partition_key) :
                                    partition_key \in partition_keys}) :
                    Cardinality(firings) <= MaxFirings},
            num_requested : 0..1] :
        asset_key \in AssetKeys, partition_keys \in {PartitionKeys, {NoPartitionKey}}}

\* the state no call reads
CallInitRest ==
    /\ latest_materialization = [asset_partition \in AllAssetPartitions |-> 0]
    /\ last_storage_id = 0
    /\ phase = "idle"
    /\ pending = EmptyMapping
    /\ outdated = {}
    /\ call_result = NotReturned

CallInit ==
    /\ CallInitRest
    /\ \/ /\ deployment \in {1, 5}
          /\ b_partitioned \in BOOLEAN
          /\ partitions_def_version = 1
          /\ backfill = {}
          /\ cursor = AssetDaemonCursor(EmptyMapping, 0, {})
          /\ call \in FromRuleEvaluationResultsCalls
          /\ \A firing \in call.asset_partitions_by_rule_evaluation :
                firing[2] \subseteq asset_partitions_of(call.asset_key)
       \/ /\ deployment = 1
          /\ b_partitioned = TRUE
          /\ partitions_def_version = 1
          /\ backfill = {}
          /\ cursor = AssetDaemonCursor(EmptyMapping, 0, {})
          /\ call \in DiscardCalls \cup EqCalls \cup UnpackCalls
       \/ /\ deployment = 1
          /\ b_partitioned \in BOOLEAN
          /\ partitions_def_version = 1
          /\ backfill \in SUBSET UNION {asset_partitions_of(asset_key) : asset_key \in AssetKeys}
          /\ call \in BackfillCalls
          /\ cursor \in PreviousCursors(call.asset_key,
                            SkipOnBackfillInProgressRule(call.all_partitions))
       \/ /\ deployment = 1
          /\ b_partitioned \in BOOLEAN
          /\ partitions_def_version = MaxDefVersion
          /\ backfill = {}
          /\ cursor = AssetDaemonCursor(EmptyMapping, 0, {})
          /\ call \in ContentCalls \cup CountCalls \cup SkipReasonCalls
       \/ /\ deployment = 1
          /\ b_partitioned \in BOOLEAN
          /\ partitions_def_version \in 1..MaxDefVersion
          /\ backfill = {}
          /\ call \in PreviousTickResultsCalls
          /\ cursor = AssetDaemonCursor(
                [k \in {"B"} |-> evaluation_with_firing("B", call.recorded_by, NoData,
                                                        asset_partitions_of("B"))],
                0, {})
       \/ /\ deployment = 1
          /\ b_partitioned \in BOOLEAN
          /\ partitions_def_version \in 1..MaxDefVersion
          /\ backfill = {}
          /\ call \in ReadCalls
          /\ cursor = AssetDaemonCursor([k \in {"B"} |-> call.evaluation], 0, {})

\* the call returns
Return(value) ==
    /\ ~call_result.done
    /\ call_result' = [done |-> TRUE, value |-> value]
    /\ UNCHANGED <<b_partitioned, partitions_def_version, latest_materialization,
                   last_storage_id, backfill, cursor, phase, pending, deployment, outdated, call>>

CallDiscardOnMaxMaterializationsExceeded ==
    /\ call.op = "DiscardOnMaxMaterializationsExceededRule.evaluate_for_asset"
    /\ Return(DiscardOnMaxMaterializationsExceededRule_evaluate_for_asset(
                DiscardOnMaxMaterializationsExceededRule(call.limit),
                RuleEvaluationContext("B", cursor, EmptyMapping, call.candidates),
                call.iteration_order))

CallSkipOnBackfillInProgress ==
    /\ call.op = "SkipOnBackfillInProgressRule.evaluate_for_asset"
    /\ Return(SkipOnBackfillInProgressRule_evaluate_for_asset(
                SkipOnBackfillInProgressRule(call.all_partitions),
                RuleEvaluationContext(call.asset_key, cursor, EmptyMapping, call.candidates)))

CallEquivalentToStoredEvaluation ==
    /\ call.op = "AutoMaterializeAssetEvaluation.equivalent_to_stored_evaluation"
    /\ Return(equivalent_to_stored_evaluation(call.self, call.stored_evaluation))

CallGetPreviousTickResults ==
    /\ call.op = "RuleEvaluationContext.get_previous_tick_results"
    /\ Return(get_previous_tick_results(
                RuleEvaluationContext("B", cursor, EmptyMapping, {}), call.rule))

CallEq ==
    /\ call.op = "AutoMaterializeRule.__eq__"
    /\ Return([eq |-> rule_eq(call.self, call.other),
               len_of_set |-> len_of_set(call.self, call.other)])

CallUnpack ==
    /\ call.op = "BackcompatAutoMaterializeConditionSerializer.unpack"
    /\ Return(unpack(call.klass, call.unpacked_dict))

CallGetRuleEvaluationResults ==
    /\ call.op = "AutoMaterializeAssetEvaluation.get_rule_evaluation_results"
    /\ Return(get_rule_evaluation_results(call.evaluation, call.rule_snapshot))

CallGetRequestedOrDiscardedAssetPartitions ==
    /\ call.op = "AutoMaterializeAssetEvaluation.get_requested_or_discarded_asset_partitions"
    /\ Return(get_requested_or_discarded_asset_partitions(call.evaluation))

CallGetEvaluatedAssetPartitions ==
    /\ call.op = "AutoMaterializeAssetEvaluation.get_evaluated_asset_partitions"
    /\ Return(get_evaluated_asset_partitions(call.evaluation))

CallFromRuleEvaluationResults ==
    /\ call.op = "AutoMaterializeAssetEvaluation.from_rule_evaluation_results"
    /\ Return(from_rule_evaluation_results(call.asset_key,
                call.asset_partitions_by_rule_evaluation, call.num_requested, 0, 0))

CallNext ==
    \/ CallFromRuleEvaluationResults
    \/ CallDiscardOnMaxMaterializationsExceeded
    \/ CallSkipOnBackfillInProgress
    \/ CallEquivalentToStoredEvaluation
    \/ CallGetPreviousTickResults
    \/ CallEq
    \/ CallUnpack
    \/ CallGetRuleEvaluationResults
    \/ CallGetRequestedOrDiscardedAssetPartitions
    \/ CallGetEvaluatedAssetPartitions

CallSpec == CallInit /\ [][CallNext]_vars


\* ------------------------------------------ single rule calls on an instance
\* A further specification follows one call of a rule, or of a query of the
\* evaluation context, made under no previous tick: RuleCallInit draws the
\* deployment, the instance's event log, the cursor and the arguments.

\* the event logs of at most MaxEvents materializations: every event has a
\* storage id of its own
EventLogs ==
    {log \in [AllAssetPartitions -> 0..MaxEvents] :
        \A p, q \in AllAssetPartitions : p # q /\ log[p] # 0 => log[p] # log[q]}

\* the will-materialize mappings: asset key -> asset partitions of that asset
WillMaterializeMappings ==
    {mapping \in [AssetKeys -> SUBSET AllAssetPartitions] :
        \A asset_key \in AssetKeys : \A asset_partition \in mapping[asset_key] :
            asset_partition[1] = asset_key}

ParentUpdatedCalls ==
    [op : {"MaterializeOnParentUpdatedRule.evaluate_for_asset"},
     asset_key : AssetKeys,
     will_materialize_mapping : WillMaterializeMappings]

NotAllParentsUpdatedCalls ==
    [op : {"SkipOnNotAllParentsUpdatedRule.evaluate_for_asset"},
     require_update_for_all_parent_partitions : {0, 1},
     asset_key : {"B"},
     will_materialize_mapping : WillMaterializeMappings,
     candidates : SUBSET {asset_partition \in AllAssetPartitions : asset_partition[1] = "B"}]

\* the calls of the two skip rules that look at the parents no run of this
\* tick will update
ParentSkipCalls ==
    [op : {"SkipOnParentMissingRule.evaluate_for_asset",
           "SkipOnParentOutdatedRule.evaluate_for_asset"},
     asset_key : {"B"},
     will_materialize_mapping : WillMaterializeMappings,
     candidates : SUBSET {asset_partition \in AllAssetPartitions : asset_partition[1] = "B"}]

SameRunCalls ==
    [op : {"RuleEvaluationContext.materializable_in_same_run"},
     child_key : AssetKeys,
     parent_key : AssetKeys]

RuleCallInit ==
    /\ partitions_def_version = 1
    /\ backfill = {}
    /\ phase = "idle"
    /\ pending = EmptyMapping
    /\ call_result = NotReturned
    /\ b_partitioned \in BOOLEAN
    /\ \/ /\ deployment \in 1..4
          /\ latest_materialization \in
                {log \in EventLogs :
                    \A asset_partition \in AllAssetPartitions :
                        asset_partition \notin asset_partitions_of(asset_partition[1])
                            => log[asset_partition] = 0}
          /\ last_storage_id = MaxEvents
          /\ outdated = {}
          /\ \/ /\ call \in {c \in ParentUpdatedCalls :
                                \A asset_key \in AssetKeys :
                                    c.will_materialize_mapping[asset_key]
                                        \subseteq asset_partitions_of(asset_key)}
                /\ \E latest_storage_id \in 0..MaxEvents :
                        cursor = AssetDaemonCursor(EmptyMapping, latest_storage_id, {})
             \/ /\ call \in {c \in NotAllParentsUpdatedCalls :
                                /\ c.candidates \subseteq asset_partitions_of(c.asset_key)
                                /\ \A asset_key \in AssetKeys :
                                    c.will_materialize_mapping[asset_key]
                                        \subseteq asset_partitions_of(asset_key)}
                /\ cursor = AssetDaemonCursor(EmptyMapping, 0, {})
       \/ /\ deployment \in {1, 2, 3, 4, 5, 8}
          /\ latest_materialization \in
                {log \in EventLogs :
                    \A asset_partition \in AllAssetPartitions :
                        \/ asset_partition \notin asset_partitions_of(asset_partition[1])
                        \/ is_source(asset_partition[1]) /\ ~is_observable(asset_partition[1])
                            => log[asset_partition] = 0}
          /\ last_storage_id = MaxEvents
          /\ outdated = {}
          /\ call \in {c \in ParentSkipCalls :
                        /\ c.op = "SkipOnParentMissingRule.evaluate_for_asset"
                        /\ c.candidates \subseteq asset_partitions_of(c.asset_key)
                        /\ \A asset_key \in AssetKeys :
                            c.will_materialize_mapping[asset_key]
                                \subseteq asset_partitions_of(asset_key) \cap
                                    {asset_partition \in AllAssetPartitions :
                                        asset_partition[1] \in materializable_asset_keys}}
          /\ cursor = AssetDaemonCursor(EmptyMapping, 0, {})
       \/ /\ deployment \in 1..4
          /\ latest_materialization = [asset_partition \in AllAssetPartitions |-> 0]
          /\ last_storage_id = 0
          /\ outdated \in SUBSET UNION {asset_partitions_of(asset_key) : asset_key \in AssetKeys}
          /\ call \in {c \in ParentSkipCalls :
                        /\ c.op = "SkipOnParentOutdatedRule.evaluate_for_asset"
                        /\ c.candidates \subseteq asset_partitions_of(c.asset_key)
                        /\ \A asset_key \in AssetKeys :
                            c.will_materialize_mapping[asset_key]
                                \subseteq asset_partitions_of(asset_key)}
          /\ cursor = AssetDaemonCursor(EmptyMapping, 0, {})
       \/ /\ deployment \in 1..8
          /\ latest_materialization = [asset_partition \in AllAssetPartitions |-> 0]
          /\ last_storage_id = 0
          /\ outdated = {}
          /\ cursor = AssetDaemonCursor(EmptyMapping, 0, {})
          /\ call \in SameRunCalls

CallMaterializeOnParentUpdated ==
    /\ call.op = "MaterializeOnParentUpdatedRule.evaluate_for_asset"
    /\ Return(MaterializeOnParentUpdatedRule_evaluate_for_asset(
                RuleEvaluationContext(call.asset_key, cursor, call.will_materialize_mapping,
                                      materialize_candidates(call.asset_key))))

CallSkipOnNotAllParentsUpdated ==
    /\ call.op = "SkipOnNotAllParentsUpdatedRule.evaluate_for_asset"
    /\ Return(SkipOnNotAllParentsUpdatedRule_evaluate_for_asset(
                SkipOnNotAllParentsUpdatedRule(call.require_update_for_all_parent_partitions),
                RuleEvaluationContext(call.asset_key, cursor, call.will_materialize_mapping,
                                      call.candidates)))

CallSkipOnParentMissing ==
    /\ call.op = "SkipOnParentMissingRule.evaluate_for_asset"
    /\ Return(SkipOnParentMissingRule_evaluate_for_asset(
                RuleEvaluationContext(call.asset_key, cursor, call.will_materialize_mapping,
                                      call.candidates)))

CallSkipOnParentOutdated ==
    /\ call.op = "SkipOnParentOutdatedRule.evaluate_for_asset"
    /\ Return(SkipOnParentOutdatedRule_evaluate_for_asset(
                RuleEvaluationContext(call.asset_key, cursor, call.will_materialize_mapping,
                                      call.candidates)))

CallMaterializableInSameRun ==
    /\ call.op = "RuleEvaluationContext.materializable_in_same_run"
    /\ Return(materializable_in_same_run(call.child_key, call.parent_key))

RuleCallNext ==
    \/ CallMaterializeOnParentUpdated
    \/ CallSkipOnNotAllParentsUpdated
    \/ CallSkipOnParentMissing
    \/ CallSkipOnParentOutdated
    \/ CallMaterializableInSameRun

RuleCallSpec == RuleCallInit /\ [][RuleCallNext]_vars


\* ---------------------------------------------------------------- properties
\* the rules of one decision type
rules_of(decision) ==
    {rule \in materialize_rules \cup skip_rules \cup discard_rules :
        decision_type(rule) = decision}

\* the asset partitions a rule returns for an asset when given these candidates
rule_output(rule, asset_key, will_materialize_mapping, candidates, iteration_order) ==
    UNION {item[2] : item \in
        evaluate_for_asset(rule,
            RuleEvaluationContext(asset_key, cursor, will_materialize_mapping, candidates),
            iteration_order)}

\* the union of what the rules of one decision type return
stage_union(decision, asset_key, will_materialize_mapping, candidates, iteration_order) ==
    UNION {rule_output(rule, asset_key, will_materialize_mapping, candidates, iteration_order) :
            rule \in rules_of(decision)}

canonical_materialize_order == CHOOSE order \in Orders(materialize_rules) : TRUE
canonical_skip_order == CHOOSE order \in Orders(skip_rules) : TRUE
canonical_iteration_order == CHOOSE order \in Orders(PartitionKeys) : TRUE

\* C1: for every asset evaluated on a tick, M is the union of the materialize
\* rules' outputs, S the union of the skip rules' outputs on candidates M, D
\* the union of the discard rules' outputs on candidates M - S, and the
\* requested set is M - S - D, a subset of M.
C1_RequestedIsMMinusSMinusD ==
    \A asset_key \in DOMAIN pending : \A iteration_order \in Orders(PartitionKeys) :
        LET r == pending[asset_key].result
            w == pending[asset_key].will_materialize_mapping
        IN  /\ r.to_materialize = stage_union(MATERIALIZE, asset_key, w,
                                        asset_partitions_of(asset_key), iteration_order)
            /\ r.to_skip = stage_union(SKIP, asset_key, w, r.to_materialize, iteration_order)
            /\ r.to_discard = stage_union(DISCARD, asset_key, w,
                                        r.to_materialize \ r.to_skip, iteration_order)
            /\ r.requested = (r.to_materialize \ r.to_skip) \ r.to_discard
            /\ r.requested \subseteq r.to_materialize

\* an asset whose evaluation skipped one candidate and requested another
C1_Witness ==
    \E asset_key \in DOMAIN pending :
        /\ pending[asset_key].result.to_skip \cap pending[asset_key].result.to_materialize # {}
        /\ pending[asset_key].result.requested # {}

\* C2: every skip rule and every discard rule returns a subset of the
\* candidates it was given, carried-forward partitions included.
C2_SkipAndDiscardWithinCandidates ==
    \A asset_key \in DOMAIN pending : \A rule \in skip_rules \cup discard_rules :
        LET r == pending[asset_key].result
            candidates == IF decision_type(rule) = SKIP
                          THEN r.to_materialize
                          ELSE r.to_materialize \ r.to_skip
        IN  rule_output(rule, asset_key, pending[asset_key].will_materialize_mapping,
                        candidates, canonical_iteration_order) \subseteq candidates

\* C3: requested, skipped (S within M) and discarded are pairwise disjoint,
\* their union is M, no partition is both skipped and discarded, and the
\* three counts of the record add up to |M|.
C3_DecisionsPartitionM ==
    \A asset_key \in DOMAIN pending :
        LET r == pending[asset_key].result
            skipped == r.to_skip \cap r.to_materialize
        IN  /\ r.requested \cap skipped = {}
            /\ r.requested \cap r.to_discard = {}
            /\ r.to_skip \cap r.to_discard = {}
            /\ r.requested \cup skipped \cup r.to_discard = r.to_materialize
            /\ r.evaluation.num_requested = Cardinality(r.requested)
            /\ r.evaluation.num_skipped = Cardinality(skipped)
            /\ r.evaluation.num_discarded = Cardinality(r.to_discard)
            /\ r.evaluation.num_requested + r.evaluation.num_skipped
                    + r.evaluation.num_discarded = Cardinality(r.to_materialize)

\* an asset with two candidates, one of them skipped
C3_Witness ==
    \E asset_key \in DOMAIN pending :
        /\ Cardinality(pending[asset_key].result.to_materialize) = 2
        /\ Cardinality(pending[asset_key].result.to_skip) = 1

\* C4: evaluating the asset again from the same cursor, the same state and
\* the same parents' results gives the same requested, skipped and discarded
\* sets, whatever the order the rules run in and the order sets are iterated in.
C4_ReevaluationGivesSameSets ==
    \A asset_key \in DOMAIN pending :
        \A materialize_order \in Orders(materialize_rules), skip_order \in Orders(skip_rules),
           iteration_order \in Orders(PartitionKeys) :
            LET r == pending[asset_key].result
                again == evaluate_asset(asset_key, cursor,
                            pending[asset_key].will_materialize_mapping,
                            materialize_order, skip_order, iteration_order)
            IN  /\ again.requested = r.requested
                /\ again.to_skip \cap again.to_materialize = r.to_skip \cap r.to_materialize
                /\ again.to_discard = r.to_discard

\* an asset of which one candidate was requested and another discarded
C4_Witness ==
    \E asset_key \in DOMAIN pending :
        /\ pending[asset_key].result.to_discard # {}
        /\ pending[asset_key].result.requested # {}

\* C5: the order in which the rules of one kind run changes nothing: M, S, D,
\* the requested set and the firings recorded per rule are the same for
\* every order of the materialize rules and every order of the skip rules.
C5_RuleOrderImmaterial ==
    \A asset_key \in DOMAIN pending :
        \A materialize_order \in Orders(materialize_rules), skip_order \in Orders(skip_rules) :
            \A iteration_order \in Orders(PartitionKeys) :
                evaluate_asset(asset_key, cursor, pending[asset_key].will_materialize_mapping,
                               materialize_order, skip_order, iteration_order)
                    = pending[asset_key].result

\* an asset on which both materialize rules and both skip rules fired
C5_Witness ==
    \E asset_key \in DOMAIN pending :
        \A rule \in materialize_rules \cup skip_rules :
            \E entry \in pending[asset_key].result.evaluation.partition_subsets_by_condition :
                entry[1].rule_snapshot = to_snapshot(rule)


\* C6 as stated: the per-asset evaluations of a tick give the same result in
\* any order, no evaluation reading another asset's result of the current
\* tick: every asset's result is the one it has when no other asset has been
\* evaluated before it.
C6_AnyOrderSameResult ==
    \A asset_key \in DOMAIN pending :
        pending[asset_key].result =
            evaluate_asset(asset_key, cursor, EmptyMapping, canonical_materialize_order,
                           canonical_skip_order, canonical_iteration_order)

\* C6: an asset's evaluation reads, of the current tick's results, the
\* requested sets of its parents that were evaluated before it and nothing
\* else; so the per-asset evaluations give the same result in every order
\* that evaluates parents before their children.
C6_ReadsOnlyParentsResults ==
    \A asset_key \in DOMAIN pending :
        LET evaluated_parents == DOMAIN pending[asset_key].will_materialize_mapping
                                    \cap get_parents(asset_key)
        IN  pending[asset_key].result =
                evaluate_asset(asset_key, cursor,
                    [parent_key \in evaluated_parents |-> pending[parent_key].result.requested],
                    canonical_materialize_order, canonical_skip_order,
                    canonical_iteration_order)

\* the child is evaluated after its parent and fires on a partition the
\* parent requests on this tick
C6_Witness ==
    /\ "B" \in DOMAIN pending
    /\ "A" \in DOMAIN pending["B"].will_materialize_mapping
    /\ \E entry \in pending["B"].result.evaluation.partition_subsets_by_condition :
            entry[1].evaluation_data.will_update_asset_keys = {"A"}

\* C7: a tick is atomic: the cursor changes only by the commit of a tick that
\* has evaluated every asset, and then to that tick's complete set of
\* records; in every state it holds the records of all assets or of none.
C7_TickIsAtomic ==
    /\ [](DOMAIN cursor.latest_evaluation_by_asset_key \in {{}, AssetKeys})
    /\ [][cursor' # cursor =>
            /\ phase = "evaluating"
            /\ DOMAIN pending = AssetKeys
            /\ cursor' = cursor_with_updates(cursor, pending, last_storage_id)
            /\ phase' = "idle"]_vars

\* a tick has committed the records of all assets and moved the watermark
C7_Witness ==
    /\ phase = "idle"
    /\ DOMAIN cursor.latest_evaluation_by_asset_key = AssetKeys
    /\ cursor.latest_storage_id > 0

\* C8: ticks are sequential: a tick begins only when no tick is in flight,
\* the cursor does not change while it evaluates, and the previous tick's
\* evaluation an asset's rules read is exactly the record the cursor holds
\* for that asset, the one the last committed tick left.
C8_PreviousTickIsLastCommit ==
    /\ [](\A asset_key \in DOMAIN pending :
            pending[asset_key].previous_tick_evaluation =
                dict_get(cursor.latest_evaluation_by_asset_key, asset_key))
    /\ [][(phase' = "evaluating" /\ phase # "evaluating") =>
            (Idle /\ pending' = EmptyMapping /\ cursor' = cursor)]_vars
    /\ [][(phase = "evaluating" /\ phase' = "evaluating") => cursor' = cursor]_vars

\* the child is evaluated on a tick that follows a committed tick
C8_Witness ==
    /\ "B" \in DOMAIN pending
    /\ pending["B"].previous_tick_evaluation # {}
    /\ cursor.latest_storage_id > 0

\* C9: a tick that fails commits nothing and is not retried: the cursor is
\* unchanged, the evaluations made so far are dropped, and the next tick
\* starts afresh from the last committed cursor.
C9_FailureCommitsNothing ==
    /\ [](phase = "failed" => pending = EmptyMapping)
    /\ [][(phase' = "failed" /\ phase # "failed") =>
            (phase = "evaluating" /\ cursor' = cursor /\ pending' = EmptyMapping)]_vars
    /\ [][phase = "failed" => (cursor' = cursor /\ pending' = EmptyMapping)]_vars

\* a tick has failed while events were waiting to be committed
C9_Witness ==
    /\ phase = "failed"
    /\ cursor.latest_storage_id < last_storage_id
    /\ cursor.latest_evaluation_by_asset_key # EmptyMapping

\* the asset partitions a record's entries name, read without the asset's
\* current partitions definition
recorded_asset_partitions(evaluation, entries) ==
    UNION {IF entry[2].is_none
           THEN {AssetKeyPartitionKey(evaluation.asset_key, NoPartitionKey)}
           ELSE {AssetKeyPartitionKey(evaluation.asset_key, partition_key) :
                    partition_key \in deserialize(entry[2])} : entry \in entries}

recorded_for_rule(evaluation, rule) ==
    recorded_asset_partitions(evaluation,
        {entry \in evaluation.partition_subsets_by_condition :
            entry[1].rule_snapshot = to_snapshot(rule)})

recorded_for_decision(evaluation, decision) ==
    recorded_asset_partitions(evaluation,
        {entry \in evaluation.partition_subsets_by_condition :
            entry[1].rule_snapshot.decision_type = decision})

\* P was in the Missing rule's firing of the previous record, is still
\* missing, and was neither requested nor discarded on that tick
missing_and_undecided(evaluation, asset_partition) ==
    /\ asset_partition \in recorded_for_rule(evaluation, MaterializeOnMissingRule)
    /\ latest_materialization[asset_partition] = 0
    /\ asset_partition \notin (recorded_for_decision(evaluation, MATERIALIZE)
                                \ recorded_for_decision(evaluation, SKIP))

\* every subset of the record deserializes against the asset's partitions definition
subsets_deserialize(evaluation) ==
    \A entry \in evaluation.partition_subsets_by_condition :
        \/ entry[2].is_none
        \/ /\ get_partitions_def(evaluation.asset_key) # 0
           /\ can_deserialize(entry[2], get_partitions_def(evaluation.asset_key))

\* C10 as stated: a partition in the Missing rule's firing of the previous
\* tick's record, still missing and not materialized, requested or discarded
\* since, is in the Missing rule's firing on the current tick.
C10_MissingCarriedForward ==
    \A asset_key \in DOMAIN pending : \A evaluation \in pending[asset_key].previous_tick_evaluation :
        \A asset_partition \in asset_partitions_of(asset_key) :
            missing_and_undecided(evaluation, asset_partition)
                => asset_partition \in recorded_for_rule(pending[asset_key].result.evaluation,
                                                         MaterializeOnMissingRule)

\* C10: a partition in the Missing rule's firing of the previous tick's
\* record, still missing and not materialized, requested or discarded since,
\* is in the Missing rule's firing on the current tick, provided the record's
\* subsets still deserialize against the asset's current partitions definition.
C10_MissingCarriedForwardWhenReadable ==
    \A asset_key \in DOMAIN pending : \A evaluation \in pending[asset_key].previous_tick_evaluation :
        \A asset_partition \in asset_partitions_of(asset_key) :
            (missing_and_undecided(evaluation, asset_partition) /\ subsets_deserialize(evaluation))
                => asset_partition \in recorded_for_rule(pending[asset_key].result.evaluation,
                                                         MaterializeOnMissingRule)

\* a partition of the child is carried forward: it was missing and skipped
\* on the previous tick and no parent of it has been updated since
C10_Witness ==
    /\ "B" \in DOMAIN pending
    /\ \E evaluation \in pending["B"].previous_tick_evaluation :
        \E asset_partition \in asset_partitions_of("B") :
            /\ missing_and_undecided(evaluation, asset_partition)
            /\ subsets_deserialize(evaluation)
            /\ asset_partition \notin
                    get_asset_partitions_with_newly_updated_parents_for_key(cursor, "B")


\* the rules of the policy that combine their result with the previous tick's
carry_forward_rules ==
    {MaterializeOnParentUpdatedRule, MaterializeOnMissingRule, SkipOnParentMissingRule}

\* the evaluation data a rule can attach to an asset partition
evaluation_data_of(rule) ==
    IF rule = MaterializeOnParentUpdatedRule
    THEN {ParentUpdatedRuleEvaluationData({"A"}, {}), ParentUpdatedRuleEvaluationData({}, {"A"}),
          ParentUpdatedRuleEvaluationData({"A"}, {"A"})}
    ELSE IF rule = SkipOnParentMissingRule
    THEN {WaitingOnAssetsRuleEvaluationData({"A"})}
    ELSE {NoData}

\* the dict from evaluation data to asset partitions a rule builds on a tick,
\* from the data it computed per asset partition
by_evaluation_data(data_of) ==
    {<<evaluation_data, {ap \in DOMAIN data_of : data_of[ap] = evaluation_data}>> :
        evaluation_data \in {data_of[ap] : ap \in DOMAIN data_of}}

\* the entries of a rule's result that hold an asset partition
entries_holding(results, asset_partition) == {item \in results : asset_partition \in item[2]}

\* the entries a rule left in a record
recorded_entries(evaluation, rule) ==
    {entry \in evaluation.partition_subsets_by_condition :
        entry[1].rule_snapshot = to_snapshot(rule)}

\* C11: in the record a tick makes for an asset, each asset partition is
\* under at most one evaluation-data entry of a rule; and whatever data a
\* rule computed on this tick, its combination with the previous tick's
\* record holds each asset partition under at most one entry, the one of this
\* tick when there is one.
C11_OneEvaluationDataPerPartition ==
    \A asset_key \in DOMAIN pending :
        \A rule \in carry_forward_rules : \A asset_partition \in asset_partitions_of(asset_key) :
            /\ Cardinality({entry \in recorded_entries(pending[asset_key].result.evaluation, rule) :
                    asset_partition \in recorded_asset_partitions(
                        pending[asset_key].result.evaluation, {entry})}) <= 1
            /\ \A evaluated \in SUBSET asset_partitions_of(asset_key) :
               \A data_of \in [evaluated -> evaluation_data_of(rule)] :
               \A use_past_data \in SUBSET asset_partitions_of(asset_key) :
                    LET results == add_evaluation_data_from_previous_tick(rule,
                                        RuleEvaluationContext(asset_key, cursor, EmptyMapping, {}),
                                        by_evaluation_data(data_of), use_past_data)
                    IN  /\ Cardinality(entries_holding(results, asset_partition)) <= 1
                        /\ asset_partition \in evaluated =>
                                \E item \in results : /\ item[1] = data_of[asset_partition]
                                                      /\ asset_partition \in item[2]

\* a partition of the child has data of this tick that differs from the data
\* the previous tick's record holds for it
C11_Witness ==
    /\ "B" \in DOMAIN pending
    /\ \E evaluation \in pending["B"].previous_tick_evaluation :
        \E old \in recorded_entries(evaluation, MaterializeOnParentUpdatedRule) :
        \E new \in recorded_entries(pending["B"].result.evaluation, MaterializeOnParentUpdatedRule) :
            /\ old[1].evaluation_data # new[1].evaluation_data
            /\ old[2] = new[2]
            /\ can_deserialize(old[2], get_partitions_def("B"))

\* what a call returned, as the set of asset partitions it names
returned_asset_partitions == UNION {item[2] : item \in call_result.value}

Min(a, b) == IF a <= b THEN a ELSE b

\* the 0-based position of a candidate in the order of the sort key
position_by_sort_key(candidates, candidate) ==
    Cardinality({other \in candidates :
        sort_key_for_asset_partition(other) < sort_key_for_asset_partition(candidate)})

\* C14: DiscardOnMaxMaterializationsExceededRule with limit L >= 0 over a
\* candidate set C returns exactly the candidates at positions L and beyond
\* in the order of the sort key: it keeps min(L, |C|) candidates, discards
\* the other |C| - min(L, |C|), returns no firing when it discards nothing,
\* and returns the same under every iteration order of C.
C14_DiscardsBeyondLimit ==
    (/\ call.op = "DiscardOnMaxMaterializationsExceededRule.evaluate_for_asset"
     /\ call_result.done)
    => /\ returned_asset_partitions =
            {candidate \in call.candidates :
                position_by_sort_key(call.candidates, candidate) >= call.limit}
       /\ Cardinality(call.candidates \ returned_asset_partitions)
            = Min(call.limit, Cardinality(call.candidates))
       /\ Cardinality(returned_asset_partitions)
            = Cardinality(call.candidates) - Min(call.limit, Cardinality(call.candidates))
       /\ returned_asset_partitions = {} => call_result.value = {}
       /\ returned_asset_partitions # {} => call_result.value = {<<NoData, returned_asset_partitions>>}
       /\ \A iteration_order \in Orders(1..MaxCandidates) :
            DiscardOnMaxMaterializationsExceededRule_evaluate_for_asset(
                DiscardOnMaxMaterializationsExceededRule(call.limit),
                RuleEvaluationContext("B", cursor, EmptyMapping, call.candidates),
                iteration_order) = call_result.value

\* every candidate there is, a limit below their number: some are kept, the
\* rest discarded
C14_Witness ==
    /\ call.op = "DiscardOnMaxMaterializationsExceededRule.evaluate_for_asset"
    /\ call_result.done
    /\ Cardinality(call.candidates) = MaxCandidates
    /\ call.limit = 1
    /\ Cardinality(returned_asset_partitions) = MaxCandidates - 1
    /\ call.iteration_order[1] # MaxCandidates

\* C15: SkipOnBackfillInProgressRule(all_partitions=False) returns exactly
\* the candidates that are in the active backfill's target subset, and
\* SkipOnBackfillInProgressRule(all_partitions=True) exactly the candidates
\* whose asset key has a partition in that subset; what it returns is a
\* function of the candidates and the backfill state, whatever the record
\* of the previous tick.
C15_BackfillRuleIsExact ==
    (/\ call.op = "SkipOnBackfillInProgressRule.evaluate_for_asset"
     /\ call_result.done)
    => /\ call.all_partitions = 0 =>
            returned_asset_partitions = call.candidates \cap backfill
       /\ call.all_partitions = 1 =>
            returned_asset_partitions =
                {candidate \in call.candidates :
                    \E asset_partition \in backfill : asset_partition[1] = candidate[1]}
       /\ call_result.value \in {{}, {<<NoData, returned_asset_partitions>>}}
       /\ \A previous \in PreviousCursors(call.asset_key,
                                SkipOnBackfillInProgressRule(call.all_partitions)) :
            SkipOnBackfillInProgressRule_evaluate_for_asset(
                SkipOnBackfillInProgressRule(call.all_partitions),
                RuleEvaluationContext(call.asset_key, previous, EmptyMapping, call.candidates))
            = call_result.value

\* the backfill targets one partition of B, both partitions are candidates
\* and the rule skipped both, though the previous tick has no record
C15_Witness ==
    /\ call.op = "SkipOnBackfillInProgressRule.evaluate_for_asset"
    /\ call_result.done
    /\ call.all_partitions = 1
    /\ backfill = {AssetKeyPartitionKey("B", 1)}
    /\ call.candidates = {AssetKeyPartitionKey("B", 1), AssetKeyPartitionKey("B", 2)}
    /\ returned_asset_partitions = call.candidates
    /\ cursor.latest_evaluation_by_asset_key = EmptyMapping

\* the firings of a record whose entries are a list, each as its rule
\* evaluation and the asset partitions its subset denotes
firings_of(evaluation) ==
    {<<evaluation.partition_subsets_by_condition[i][1],
       recorded_asset_partitions(evaluation, {evaluation.partition_subsets_by_condition[i]})>> :
        i \in DOMAIN evaluation.partition_subsets_by_condition}

\* every subset of the record deserializes against the asset's partitions definition
readable(evaluation) ==
    \A i \in DOMAIN evaluation.partition_subsets_by_condition :
        deserialize_rule_evaluation_result(evaluation,
            evaluation.partition_subsets_by_condition[i][1],
            evaluation.partition_subsets_by_condition[i][2]) # {}

\* the two records of the call are of one asset, hold the same rule
\* snapshots, zero requested and discarded counts and equal skipped counts
same_but_for_firings(self, stored) ==
    /\ self.asset_key = stored.asset_key
    /\ self.rule_snapshots = stored.rule_snapshots
    /\ self.num_requested = 0 /\ self.num_discarded = 0
    /\ stored.num_requested = 0 /\ stored.num_discarded = 0
    /\ self.num_skipped = stored.num_skipped

\* C16: equivalent_to_stored_evaluation judges two records of one asset
\* with the same rule snapshots, zero requested and discarded counts and
\* equal skipped counts, both readable under the asset's partitions
\* definition, equivalent when their firings denote the same partition sets,
\* whatever the serialized strings, and not equivalent when they do not.
C16_EquivalentIffSameFirings ==
    (/\ call.op = "AutoMaterializeAssetEvaluation.equivalent_to_stored_evaluation"
     /\ call_result.done)
    => \A stored \in call.stored_evaluation :
        (/\ same_but_for_firings(call.self, stored)
         /\ readable(call.self)
         /\ readable(stored))
        => (call_result.value <=> firings_of(call.self) = firings_of(stored))

\* C17: equivalent_to_stored_evaluation returns false when there is no
\* stored record, and whenever the stored record's requested count or
\* discarded count is not zero: the record of the tick after one that
\* requested or discarded something is never judged redundant.
C17_NotEquivalentAfterRequestOrDiscard ==
    (/\ call.op = "AutoMaterializeAssetEvaluation.equivalent_to_stored_evaluation"
     /\ call_result.done)
    => /\ call.stored_evaluation = {} => ~call_result.value
       /\ \A stored \in call.stored_evaluation :
            (stored.num_requested # 0 \/ stored.num_discarded # 0) => ~call_result.value

\* the stored record is the record itself, firing included, and it requested
\* a partition: the two are not judged equivalent
C17_Witness ==
    /\ call.op = "AutoMaterializeAssetEvaluation.equivalent_to_stored_evaluation"
    /\ call_result.done
    /\ call.stored_evaluation = {call.self}
    /\ call.self.num_requested = 1
    /\ call.self.num_discarded = 0
    /\ Len(call.self.partition_subsets_by_condition) = 1
    /\ readable(call.self)
    /\ ~call_result.value

C19_EqualityDistinguishesVariant ==
    (/\ call.op = "AutoMaterializeRule.__eq__"
     /\ call_result.done)
    => /\ call_result.value.eq <=>
            /\ call.self.class_name = call.other.class_name
            /\ call.self.field = call.other.field
       /\ (/\ call.self.class_name # call.other.class_name
           /\ rule_fields(call.self) = <<>>
           /\ rule_fields(call.other) = <<>>)
          => /\ ~call_result.value.eq
             /\ call_result.value.len_of_set = 2
       /\ call_result.value.len_of_set = 1 <=> call_result.value.eq

\* two variants without fields were compared and found unequal
C19_Witness ==
    /\ call.op = "AutoMaterializeRule.__eq__"
    /\ call_result.done
    /\ call.self = MaterializeOnMissingRule
    /\ call.other = SkipOnParentMissingRule
    /\ rule_fields(call.self) = rule_fields(call.other)
    /\ ~call_result.value.eq
    /\ call_result.value.len_of_set = 2

\* the key set a legacy payload holds under a name: its items when it is a
\* set, the empty set when it is absent or of another type
legacy_key_set(name) ==
    IF call.unpacked_dict[name].type = "set" THEN call.unpacked_dict[name].items ELSE {}

\* the rule identity and evaluation data a legacy class decodes to
legacy_table(klass) ==
    CASE klass \in {"FreshnessAutoMaterializeCondition",
                    "DownstreamFreshnessAutoMaterializeCondition"}
            -> [rule_snapshot |-> to_snapshot(MaterializeOnRequiredForFreshnessRule),
                evaluation_data |-> NoData]
      [] klass = "MissingAutoMaterializeCondition"
            -> [rule_snapshot |-> to_snapshot(MaterializeOnMissingRule),
                evaluation_data |-> NoData]
      [] klass = "ParentMaterializedAutoMaterializeCondition"
            -> [rule_snapshot |-> to_snapshot(MaterializeOnParentUpdatedRule),
                evaluation_data |->
                    ParentUpdatedRuleEvaluationData(legacy_key_set("updated_asset_keys"),
                                                    legacy_key_set("will_update_asset_keys"))]
      [] klass = "ParentOutdatedAutoMaterializeCondition"
            -> [rule_snapshot |-> to_snapshot(SkipOnParentOutdatedRule),
                evaluation_data |->
                    WaitingOnAssetsRuleEvaluationData(legacy_key_set("waiting_on_asset_keys"))]
      [] klass = "MaxMaterializationsExceededAutoMaterializeCondition"
            -> [rule_snapshot |->
                    [class_name |-> "DiscardOnMaxMaterializationsExceededRule",
                     description |-> <<"exceeds {limit} materialization(s) per minute", 1>>,
                     decision_type |-> DISCARD],
                evaluation_data |-> NoData]

\* C20: a stored condition of a retired class decodes by the fixed table:
\* the two freshness conditions to the identity of RequiredForFreshness
\* without data, a missing condition to that of Missing without data, a
\* parent-materialized condition to that of ParentUpdated with the payload's
\* updated and will-update key sets (empty when absent or not a set), a
\* parent-outdated condition to that of ParentOutdated with the waiting-on
\* key set (empty when absent), a max-materializations condition to the
\* identity of MaxMaterializationsExceeded with limit 1.
C20_LegacyDecodingTable ==
    (/\ call.op = "BackcompatAutoMaterializeConditionSerializer.unpack"
     /\ call_result.done
     /\ call.klass \in LegacyConditions)
    => call_result.value = {legacy_table(call.klass)}

\* a parent-materialized condition whose payload holds a set of updated keys,
\* no will-update keys, decoded to ParentUpdated with the one and an empty set
C20_Witness ==
    /\ call.op = "BackcompatAutoMaterializeConditionSerializer.unpack"
    /\ call_result.done
    /\ call.klass = "ParentMaterializedAutoMaterializeCondition"
    /\ call.unpacked_dict["updated_asset_keys"] = [type |-> "set", items |-> {"A"}]
    /\ call.unpacked_dict["will_update_asset_keys"].type = "absent"
    /\ call_result.value =
            {AutoMaterializeRuleEvaluation(to_snapshot(MaterializeOnParentUpdatedRule),
                                           ParentUpdatedRuleEvaluationData({"A"}, {}))}

\* the six rules that combine their result with the previous tick's
rules_with_past_data ==
    {rule \in materialize_rules \cup skip_rules :
        rule.class_name \in {"MaterializeOnParentUpdatedRule", "MaterializeOnMissingRule",
                             "SkipOnParentOutdatedRule", "SkipOnParentMissingRule",
                             "SkipOnNotAllParentsUpdatedRule",
                             "SkipOnRequiredButNonexistentParentsRule"}}

\* the context the tick gave a rule when it evaluated an asset
context_given(rule, asset_key) ==
    RuleEvaluationContext(asset_key, cursor, pending[asset_key].will_materialize_mapping,
        IF decision_type(rule) = MATERIALIZE
        THEN materialize_candidates(asset_key)
        ELSE pending[asset_key].result.to_materialize)

\* the asset partitions a rule examines afresh on a tick
examined(rule, context) ==
    CASE rule.class_name = "MaterializeOnParentUpdatedRule"
            -> get_asset_partitions_with_updated_parents(context)
               \cup DOMAIN get_will_update_parent_mapping(context)
      [] rule.class_name = "MaterializeOnMissingRule"
            -> get_never_handled_root_asset_partitions_for_key(context.cursor, context.asset_key)
               \cup get_asset_partitions_with_updated_parents(context)
      [] rule.class_name = "SkipOnRequiredButNonexistentParentsRule"
            -> get_candidates_not_evaluated_by_rule_on_previous_tick(context)
      [] OTHER
            -> get_candidates_not_evaluated_by_rule_on_previous_tick(context)
               \cup get_candidates_with_updated_or_will_update_parents(context)

\* the parents of an asset partition that a run of this tick for it would not update
parents_left_as_they_are(context, asset_partition) ==
    get_parents_that_will_not_be_materialized_on_current_tick(context, asset_partition)

\* the condition a rule is about holds of an asset partition in this state
condition_holds(rule, context, asset_partition) ==
    CASE rule.class_name = "MaterializeOnParentUpdatedRule"
            -> \/ \E parent \in get_parents_partitions(asset_partition[1], asset_partition[2]) :
                    latest_materialization[parent] > latest_materialization[asset_partition]
               \/ asset_partition \in DOMAIN get_will_update_parent_mapping(context)
      [] rule.class_name = "MaterializeOnMissingRule"
            -> latest_materialization[asset_partition] = 0
      [] rule.class_name = "SkipOnParentOutdatedRule"
            -> parents_left_as_they_are(context, asset_partition) \cap outdated # {}
      [] rule.class_name = "SkipOnParentMissingRule"
            -> \E parent \in parents_left_as_they_are(context, asset_partition) :
                    latest_materialization[parent] = 0
      [] rule.class_name = "SkipOnNotAllParentsUpdatedRule"
            -> \E parent \in get_parents_partitions(asset_partition[1], asset_partition[2]) :
                    /\ latest_materialization[parent] <= latest_materialization[asset_partition]
                    /\ parent \notin UNION {dict_get_set(context.will_materialize_mapping, key) :
                                                key \in get_parents(context.asset_key)}
      [] OTHER
            -> required_but_nonexistent_parents_partitions(asset_partition[1],
                                                           asset_partition[2]) # {}

\* the evaluation data a rule of the second deployment can attach to a partition
evaluation_data_given_by(rule) ==
    IF rule = MaterializeOnParentUpdatedRule
    THEN {ParentUpdatedRuleEvaluationData({"A"}, {}), ParentUpdatedRuleEvaluationData({}, {"A"})}
    ELSE IF rule = MaterializeOnMissingRule
    THEN {NoData}
    ELSE {WaitingOnAssetsRuleEvaluationData({"A"})}

returned_on_tick(rule, asset_key) ==
    rule_output(rule, asset_key, pending[asset_key].will_materialize_mapping,
                context_given(rule, asset_key).candidates, canonical_iteration_order)

held_by_previous_tick(rule, asset_key) ==
    UNION {item[2] : item \in get_previous_tick_results(context_given(rule, asset_key), rule)}

state_unchanged(rule, context, evaluation, asset_partition) ==
    IF decision_type(rule) = MATERIALIZE
    THEN /\ latest_materialization[asset_partition] <= context.cursor.latest_storage_id
         /\ asset_partition \notin (recorded_for_decision(evaluation, MATERIALIZE)
                                     \ recorded_for_decision(evaluation, SKIP))
    ELSE /\ asset_partition \in context.candidates
         /\ asset_partition \notin get_asset_partitions_with_updated_parents(context)
         /\ asset_partition \notin DOMAIN get_will_update_parent_mapping(context)

\* a rule's entry of the previous tick's record holds an asset partition the
\* rule does not examine on this tick, and whose logical state is unchanged
held_and_not_examined(rule, asset_key, evaluation, entry, asset_partition) ==
    /\ asset_partition \in asset_partitions_of(asset_key)
    /\ asset_partition \in recorded_asset_partitions(evaluation, {entry})
    /\ asset_partition \notin examined(rule, context_given(rule, asset_key))
    /\ state_unchanged(rule, context_given(rule, asset_key), evaluation, asset_partition)

\* the record a tick makes holds an asset partition for a rule under some data
kept_with_data(asset_key, rule, evaluation_data, asset_partition) ==
    \E entry \in recorded_entries(pending[asset_key].result.evaluation, rule) :
        /\ entry[1].evaluation_data = evaluation_data
        /\ asset_partition \in recorded_asset_partitions(pending[asset_key].result.evaluation,
                                                         {entry})

\* C13 as stated: on every tick, an asset partition that a rule's entry of
\* the previous tick's record holds, that the rule does not examine on this
\* tick and whose logical state is unchanged, is in the rule's entry of this
\* tick's record with the same evaluation data.
C13_StaysWhileStateUnchanged ==
    \A asset_key \in DOMAIN pending : \A evaluation \in pending[asset_key].previous_tick_evaluation :
        \A rule \in rules_with_past_data : \A entry \in recorded_entries(evaluation, rule) :
            \A asset_partition \in asset_partitions_of(asset_key) :
                held_and_not_examined(rule, asset_key, evaluation, entry, asset_partition)
                    => kept_with_data(asset_key, rule, entry[1].evaluation_data, asset_partition)

\* C13: on every tick, an asset partition that a rule's entry of the previous
\* tick's record holds, that the rule does not examine on this tick and whose
\* logical state is unchanged, is in the rule's entry of this tick's record
\* with the same evaluation data, provided the previous record's subsets still
\* deserialize against the asset's current partitions definition.
C13_StaysWhileStateUnchangedAndReadable ==
    \A asset_key \in DOMAIN pending : \A evaluation \in pending[asset_key].previous_tick_evaluation :
        \A rule \in rules_with_past_data : \A entry \in recorded_entries(evaluation, rule) :
            \A asset_partition \in asset_partitions_of(asset_key) :
                (held_and_not_examined(rule, asset_key, evaluation, entry, asset_partition)
                 /\ subsets_deserialize(evaluation))
                    => kept_with_data(asset_key, rule, entry[1].evaluation_data, asset_partition)

\* on one tick a materialize rule and a skip rule each keep a partition of the
\* child that they held on the previous tick and do not examine on this one
C13_Witness ==
    /\ "B" \in DOMAIN pending
    /\ \E evaluation \in pending["B"].previous_tick_evaluation :
        /\ subsets_deserialize(evaluation)
        /\ \A decision \in {MATERIALIZE, SKIP} :
            \E rule \in rules_with_past_data : \E entry \in recorded_entries(evaluation, rule) :
            \E asset_partition \in asset_partitions_of("B") :
                /\ decision_type(rule) = decision
                /\ held_and_not_examined(rule, "B", evaluation, entry, asset_partition)
                /\ kept_with_data("B", rule, entry[1].evaluation_data, asset_partition)

\* C21: decoding a stored condition whose class is none of the retired
\* condition classes fails (check.failed raises): no rule evaluation is
\* returned, whatever the payload holds.
C21_UnknownLegacyClassFails ==
    (/\ call.op = "BackcompatAutoMaterializeConditionSerializer.unpack"
     /\ call_result.done
     /\ call.klass \notin LegacyConditions)
    => call_result.value = {}

\* a condition of a class that never existed, with a payload that a retired
\* class would decode, has been given to the decoder and nothing came back
C21_Witness ==
    /\ call.op = "BackcompatAutoMaterializeConditionSerializer.unpack"
    /\ call_result.done
    /\ call.klass \notin LegacyConditions
    /\ call.unpacked_dict["waiting_on_asset_keys"] = [type |-> "set", items |-> {"A"}]
    /\ call_result.value = {}

\* a call that reads a stored record has returned
read_returned(op) ==
    /\ call.op = op
    /\ call_result.done

\* an entry's subset deserializes against the current partitions definition
\* of the record's asset: None for an unpartitioned asset, or a subset
\* serialized against the definition the asset has now
entry_deserializes(evaluation, entry) ==
    IF entry[2].is_none
    THEN get_partitions_def(evaluation.asset_key) = 0
    ELSE /\ get_partitions_def(evaluation.asset_key) # 0
         /\ entry[2].partitions_def = get_partitions_def(evaluation.asset_key)

\* the entries of a decision type whose subsets deserialize
deserializing_entries(evaluation, decision) ==
    {entry \in evaluation.partition_subsets_by_condition :
        /\ entry[1].rule_snapshot.decision_type = decision
        /\ entry_deserializes(evaluation, entry)}

\* C22: an entry of a stored record whose subset does not deserialize against
\* the asset's current partitions definition (None for an asset that is now
\* partitioned, a subset for an asset that is now unpartitioned, or a subset
\* of another partitions definition) contributes nothing to what
\* get_rule_evaluation_results, get_requested_or_discarded_asset_partitions
\* and get_evaluated_asset_partitions return: each returns what the entries
\* that deserialize give.
C22_UndeserializableEntriesExcluded ==
    /\ read_returned("AutoMaterializeAssetEvaluation.get_rule_evaluation_results") =>
            call_result.value =
                {<<entry[1].evaluation_data, recorded_asset_partitions(call.evaluation, {entry})>> :
                    entry \in {e \in call.evaluation.partition_subsets_by_condition :
                                /\ e[1].rule_snapshot = call.rule_snapshot
                                /\ entry_deserializes(call.evaluation, e)}}
    /\ read_returned("AutoMaterializeAssetEvaluation.get_requested_or_discarded_asset_partitions") =>
            call_result.value \subseteq
                recorded_asset_partitions(call.evaluation,
                                          deserializing_entries(call.evaluation, MATERIALIZE))
    /\ read_returned("AutoMaterializeAssetEvaluation.get_evaluated_asset_partitions") =>
            call_result.value =
                recorded_asset_partitions(call.evaluation,
                                          deserializing_entries(call.evaluation, MATERIALIZE))

\* a record written while B was unpartitioned is read for a rule it holds an
\* entry of, now that B is partitioned, and nothing is returned
C22_Witness ==
    /\ read_returned("AutoMaterializeAssetEvaluation.get_rule_evaluation_results")
    /\ b_partitioned
    /\ \E entry \in call.evaluation.partition_subsets_by_condition :
            /\ entry[2].is_none
            /\ entry[1].rule_snapshot = call.rule_snapshot
    /\ call_result.value = {}

\* the records at hand during a tick: those of the cursor and those the tick has made
records_at_hand ==
    {cursor.latest_evaluation_by_asset_key[asset_key] :
        asset_key \in DOMAIN cursor.latest_evaluation_by_asset_key}
    \cup {pending[asset_key].result.evaluation : asset_key \in DOMAIN pending}

\* the asset partitions of a record's firings of one decision type
partitions_with_firing(evaluation, decision) ==
    recorded_asset_partitions(evaluation, deserializing_entries(evaluation, decision))

\* C23: for a record, get_requested_or_discarded_asset_partitions returns the
\* union of the partitions of its MATERIALIZE firings minus the union of the
\* partitions of its SKIP firings, and get_evaluated_asset_partitions the
\* union of the partitions of its MATERIALIZE firings; for the record a tick
\* makes, the former is the tick's requested set united with its discarded set.
C23_RequestedOrDiscardedIsMaterializeMinusSkip ==
    /\ \A evaluation \in records_at_hand :
        /\ get_requested_or_discarded_asset_partitions(evaluation) =
                partitions_with_firing(evaluation, MATERIALIZE)
                    \ partitions_with_firing(evaluation, SKIP)
        /\ get_evaluated_asset_partitions(evaluation) =
                partitions_with_firing(evaluation, MATERIALIZE)
    /\ \A asset_key \in DOMAIN pending :
            get_requested_or_discarded_asset_partitions(pending[asset_key].result.evaluation) =
                pending[asset_key].result.requested \cup pending[asset_key].result.to_discard

\* a tick has requested a partition and discarded another of one asset, and
\* has skipped a partition that a materialize rule fired for
C23_Witness ==
    /\ \E asset_key \in DOMAIN pending :
            /\ pending[asset_key].result.requested # {}
            /\ pending[asset_key].result.to_discard # {}
    /\ \E asset_key \in DOMAIN pending :
            pending[asset_key].result.to_skip \cap pending[asset_key].result.to_materialize # {}

\* C24: in every record a tick persists, every asset partition with a SKIP
\* or DISCARD firing has a MATERIALIZE firing in the same record.
C24_SkipOrDiscardOnlyWithMaterialize ==
    \A asset_key \in DOMAIN cursor.latest_evaluation_by_asset_key :
        LET evaluation == cursor.latest_evaluation_by_asset_key[asset_key]
        IN  recorded_for_decision(evaluation, SKIP) \cup recorded_for_decision(evaluation, DISCARD)
                \subseteq recorded_for_decision(evaluation, MATERIALIZE)

\* the cursor holds no record of a previous tick for the asset
no_previous_record(asset_key) == asset_key \notin DOMAIN cursor.latest_evaluation_by_asset_key

\* C25: when the cursor holds no previous record for the asset, the set
\* requested or discarded on the previous tick, the set evaluated on the
\* previous tick and the previous results of every rule are empty, every
\* candidate is one not evaluated on the previous tick, and each rule returns
\* exactly the asset partitions it examines and finds its condition to hold of.
C25_NoPreviousRecordMeansEmptyPast ==
    \A asset_key \in DOMAIN pending : no_previous_record(asset_key) =>
        \A rule \in rules_with_past_data :
            LET context == context_given(rule, asset_key)
            IN  /\ previous_tick_requested_or_discarded_asset_partitions(context) = {}
                /\ previous_tick_evaluated_asset_partitions(context) = {}
                /\ get_previous_tick_results(context, rule) = {}
                /\ get_candidates_not_evaluated_by_rule_on_previous_tick(context)
                        = context.candidates
                /\ returned_on_tick(rule, asset_key) =
                        {asset_partition \in examined(rule, context) :
                            condition_holds(rule, context, asset_partition)}

\* on a first tick a materialize rule fires for the child and a skip rule skips it
C25_Witness ==
    /\ "B" \in DOMAIN pending
    /\ no_previous_record("B")
    /\ \E rule \in rules_with_past_data :
            decision_type(rule) = MATERIALIZE /\ returned_on_tick(rule, "B") # {}
    /\ \E rule \in rules_with_past_data :
            decision_type(rule) = SKIP /\ returned_on_tick(rule, "B") # {}

\* C26: a record is not modified once it is persisted: the record the cursor
\* holds for an asset changes only when a tick commits, and then to the new
\* record that tick made for the asset; a record a tick has made is not
\* edited while the tick goes on; and the previous tick's evaluation a tick
\* reads for an asset is the record the cursor holds, as it was committed.
C26_RecordsAreReplacedNeverEdited ==
    /\ [][\A asset_key \in DOMAIN cursor.latest_evaluation_by_asset_key :
            /\ asset_key \in DOMAIN cursor'.latest_evaluation_by_asset_key
            /\ cursor'.latest_evaluation_by_asset_key[asset_key]
                    # cursor.latest_evaluation_by_asset_key[asset_key]
                => /\ phase = "evaluating"
                   /\ asset_key \in DOMAIN pending
                   /\ cursor'.latest_evaluation_by_asset_key[asset_key]
                        = pending[asset_key].result.evaluation]_vars
    /\ [][\A asset_key \in DOMAIN pending \cap DOMAIN pending' :
            pending'[asset_key].result.evaluation = pending[asset_key].result.evaluation]_vars
    /\ [][\A asset_key \in DOMAIN cursor'.latest_evaluation_by_asset_key :
            \/ /\ asset_key \in DOMAIN cursor.latest_evaluation_by_asset_key
               /\ cursor'.latest_evaluation_by_asset_key[asset_key]
                    = cursor.latest_evaluation_by_asset_key[asset_key]
            \/ /\ asset_key \in DOMAIN pending
               /\ cursor'.latest_evaluation_by_asset_key[asset_key]
                    = pending[asset_key].result.evaluation]_vars
    /\ [](\A asset_key \in DOMAIN pending :
            pending[asset_key].previous_tick_evaluation \subseteq
                {cursor.latest_evaluation_by_asset_key[k] :
                    k \in {asset_key} \cap DOMAIN cursor.latest_evaluation_by_asset_key})

\* a tick has read the record of the child that the previous tick committed
\* and has made a new record that differs from it
C26_Witness ==
    /\ "B" \in DOMAIN pending
    /\ "B" \in DOMAIN cursor.latest_evaluation_by_asset_key
    /\ pending["B"].previous_tick_evaluation = {cursor.latest_evaluation_by_asset_key["B"]}
    /\ pending["B"].result.evaluation # cursor.latest_evaluation_by_asset_key["B"]

\* ------------------------------------------------ single rule calls: C27..C30
\* the call of the operation has returned
rule_call_returned(op) == call.op = op /\ call_result.done

\* the asset partitions a returned rule result holds, with any data
fired_asset_partitions == UNION {item[2] : item \in call_result.value}

\* the keys of the parents, the asset itself left out, with a partition that
\* the asset partition depends on and that was updated after it
parent_keys_updated_after(asset_partition) ==
    {parent_key \in get_parents(asset_partition[1]) \ {asset_partition[1]} :
        \E parent \in get_parents_partitions(asset_partition[1], asset_partition[2]) :
            /\ parent[1] = parent_key
            /\ latest_materialization[parent] > latest_materialization[asset_partition]}

\* the keys of the parents that a run can materialize together with the asset
\* and whose partition of the same key is in the will-materialize mapping
parent_keys_updating_in_same_run(asset_partition) ==
    {parent_key \in get_parents(asset_partition[1]) :
        /\ materializable_in_same_run(asset_partition[1], parent_key)
        /\ AssetKeyPartitionKey(parent_key, asset_partition[2])
                \in call.will_materialize_mapping[parent_key]}

\* the asset partitions the parent updated rule looks at: those with a parent
\* updated since the cursor and those with a same-run parent that will update
with_updated_or_will_update_parents(asset_key) ==
    {asset_partition \in asset_partitions_of(asset_key) :
        \/ \E parent \in get_parents_partitions(asset_key, asset_partition[2]) :
                latest_materialization[parent] > cursor.latest_storage_id
        \/ parent_keys_updating_in_same_run(asset_partition) # {}}

\* C27: with no previous record, MaterializeOnParentUpdatedRule fires for an
\* asset partition exactly when the partition has a parent updated since the
\* cursor or a same-run parent that will update, and its set of parent keys
\* updated after it (the asset's own key left out) or its set of same-run
\* will-materialize parent keys is not empty; the data of the firing is these
\* two sets; and when A can be materialized in the same run as B and partition
\* k of A is in the will-materialize mapping, partition k of B has a firing
\* whose will_update_asset_keys holds A.
C27_ParentUpdatedFiresOnUpdatedOrWillUpdateParents ==
    rule_call_returned("MaterializeOnParentUpdatedRule.evaluate_for_asset") =>
        /\ \A asset_partition \in AllAssetPartitions :
                asset_partition \in fired_asset_partitions
                    <=> /\ asset_partition \in with_updated_or_will_update_parents(call.asset_key)
                        /\ \/ parent_keys_updated_after(asset_partition) # {}
                           \/ parent_keys_updating_in_same_run(asset_partition) # {}
        /\ \A item \in call_result.value : \A asset_partition \in item[2] :
                item[1] = ParentUpdatedRuleEvaluationData(
                                parent_keys_updated_after(asset_partition),
                                parent_keys_updating_in_same_run(asset_partition))
        /\ \A parent \in call.will_materialize_mapping["A"] :
                call.asset_key = "B" /\ materializable_in_same_run("B", "A")
                    => \E item \in call_result.value :
                            /\ AssetKeyPartitionKey("B", parent[2]) \in item[2]
                            /\ "A" \in item[1].will_update_asset_keys

\* a call for B in the deployment where B is its own parent: the partition of
\* B before the last was updated after the last, and so was the last partition
\* of A, which is also about to be materialized: the last partition of B fires
\* with A, and A alone, in both sets
C27_Witness ==
    /\ rule_call_returned("MaterializeOnParentUpdatedRule.evaluate_for_asset")
    /\ call.asset_key = "B"
    /\ "B" \in get_parents("B")
    /\ latest_materialization[AssetKeyPartitionKey("B", NumPartitions - 1)]
            > latest_materialization[AssetKeyPartitionKey("B", NumPartitions)]
    /\ \E item \in call_result.value :
            /\ AssetKeyPartitionKey("B", NumPartitions) \in item[2]
            /\ item[1] = ParentUpdatedRuleEvaluationData({"A"}, {"A"})

\* ------------------------------------------------------------------- C28
\* the entries of the record the tick made for an asset that hold a firing
\* of the missing rule for the asset partition
missing_entries_holding(asset_key, asset_partition) ==
    {entry \in recorded_entries(pending[asset_key].result.evaluation, MaterializeOnMissingRule) :
        asset_partition \in recorded_asset_partitions(pending[asset_key].result.evaluation,
                                                      {entry})}

\* a partition of a parentless asset never materialized, requested or discarded
never_handled_root(asset_partition) ==
    /\ get_parents(asset_partition[1]) = {}
    /\ latest_materialization[asset_partition] = 0
    /\ asset_partition \notin cursor.handled_root_asset_partitions

\* a partition with a parent updated since the cursor and no record of its own
missing_with_newly_updated_parents(asset_partition) ==
    /\ latest_materialization[asset_partition] = 0
    /\ \E parent \in get_parents_partitions(asset_partition[1], asset_partition[2]) :
            latest_materialization[parent] > cursor.latest_storage_id

\* the missing rule fires, with no data, for the partitions it finds missing
missing_fires_without_data(asset_key) ==
    /\ \A asset_partition \in asset_partitions_of(asset_key) :
            never_handled_root(asset_partition) \/ missing_with_newly_updated_parents(asset_partition)
                => missing_entries_holding(asset_key, asset_partition) # {}
    /\ \A entry \in recorded_entries(pending[asset_key].result.evaluation,
                                     MaterializeOnMissingRule) :
            entry[1].evaluation_data = NoData

\* no skip rule and no discard rule fired for the asset on the tick
no_skip_or_discard_firing(asset_key) ==
    \A entry \in pending[asset_key].result.evaluation.partition_subsets_by_condition :
        entry[1].rule_snapshot.decision_type = MATERIALIZE

has_simple_partition_mapping(child_key, parent_key) ==
    \/ get_partition_mapping(child_key, parent_key) = "IdentityPartitionMapping"
    \/ get_partition_mapping(child_key, parent_key) = "TimeWindowPartitionMapping"

\* C29: materializable_in_same_run(child, parent) is true if and only if
\* both keys are materializable assets, they have the same partitioning, the
\* parent is unpartitioned or its partition mapping to the child is an
\* identity or a time window mapping, and both are in the same repository.
C29_SameRunIffFourConditions ==
    rule_call_returned("RuleEvaluationContext.materializable_in_same_run") =>
        (call_result.value = TRUE
            <=> /\ {call.child_key, call.parent_key} \subseteq materializable_asset_keys
                /\ get_partitions_def(call.child_key) = get_partitions_def(call.parent_key)
                /\ \/ get_partitions_def(call.parent_key) = 0
                   \/ has_simple_partition_mapping(call.child_key, call.parent_key)
                /\ get_repository_handle(call.child_key) = get_repository_handle(call.parent_key))

\* the two assets are materializable, partitioned alike and mapped by the
\* identity, but live in two repositories: the test is false
C29_Witness ==
    /\ rule_call_returned("RuleEvaluationContext.materializable_in_same_run")
    /\ call.child_key = "B" /\ call.parent_key = "A"
    /\ {"A", "B"} \subseteq materializable_asset_keys
    /\ is_partitioned("A") /\ have_same_partitioning("B", "A")
    /\ get_partition_mapping("B", "A") = "IdentityPartitionMapping"
    /\ get_repository_handle("A") # get_repository_handle("B")
    /\ call_result.value = FALSE

\* ------------------------------------------------------------------- C30
\* the parent partition was updated after the candidate or is in the
\* will-materialize mapping
updated_or_will_materialize(candidate, parent) ==
    \/ latest_materialization[parent] > latest_materialization[candidate]
    \/ parent \in call.will_materialize_mapping[parent[1]]

\* strict mode: the keys of the candidate's parent partitions that are
\* neither updated nor about to be materialized, the asset's own key removed
missing_in_strict_mode(candidate) ==
    {parent[1] : parent \in {p \in get_parents_partitions(candidate[1], candidate[2]) :
                                ~updated_or_will_materialize(candidate, p)}}
        \ {candidate[1]}

\* lenient mode: the keys of the parents with no partition updated after the
\* candidate and no partition about to be materialized, the own key removed
missing_in_lenient_mode(candidate) ==
    {parent_key \in get_parents(candidate[1]) :
        /\ call.will_materialize_mapping[parent_key] = {}
        /\ \A parent \in get_parents_partitions(candidate[1], candidate[2]) :
                parent[1] = parent_key
                    => latest_materialization[parent] <= latest_materialization[candidate]}
        \ {candidate[1]}

missing_parent_keys(candidate) ==
    IF call.require_update_for_all_parent_partitions = 1
    THEN missing_in_strict_mode(candidate)
    ELSE missing_in_lenient_mode(candidate)

\* C30: with no previous record every candidate is evaluated afresh, and
\* SkipOnNotAllParentsUpdatedRule fires for a candidate exactly when its
\* missing set is not empty, with the missing set as data: in strict mode the
\* keys of the candidate's parent partitions neither updated after the
\* candidate nor in the will-materialize mapping, in lenient mode the parent
\* keys with no updated and no will-materialize partition, in both modes
\* without the asset's own key.
C30_NotAllParentsUpdatedFiresOnMissingSet ==
    rule_call_returned("SkipOnNotAllParentsUpdatedRule.evaluate_for_asset") =>
        /\ \A asset_partition \in AllAssetPartitions :
                asset_partition \in fired_asset_partitions
                    <=> /\ asset_partition \in call.candidates
                        /\ missing_parent_keys(asset_partition) # {}
        /\ \A item \in call_result.value : \A candidate \in item[2] :
                item[1] = WaitingOnAssetsRuleEvaluationData(missing_parent_keys(candidate))

\* a strict call in the deployment where B is its own parent: the last
\* partition of B is a candidate, its parent partition of A was updated after
\* it, its parent partition of B was not and is not about to be: the rule
\* does not fire for it
C30_Witness ==
    /\ rule_call_returned("SkipOnNotAllParentsUpdatedRule.evaluate_for_asset")
    /\ call.require_update_for_all_parent_partitions = 1
    /\ "B" \in get_parents("B")
    /\ AssetKeyPartitionKey("B", NumPartitions) \in call.candidates
    /\ AssetKeyPartitionKey("B", NumPartitions - 1)
            \in get_parents_partitions("B", NumPartitions)
    /\ ~updated_or_will_materialize(AssetKeyPartitionKey("B", NumPartitions),
                                    AssetKeyPartitionKey("B", NumPartitions - 1))
    /\ latest_materialization[AssetKeyPartitionKey("A", NumPartitions)]
            > latest_materialization[AssetKeyPartitionKey("B", NumPartitions)]
    /\ AssetKeyPartitionKey("B", NumPartitions) \notin fired_asset_partitions

\* ------------------------------------------------------------------- C31
\* the parent partition is updated by a run of this tick together with the candidate
will_co_materialize(candidate, parent) ==
    /\ parent \in call.will_materialize_mapping[parent[1]]
    /\ materializable_in_same_run(candidate[1], parent[1])

\* the parent partitions of the candidate that no run of this tick updates
\* with it, that are not of a non-observable source, and that have no record
parents_found_missing(candidate) ==
    {parent \in get_parents_partitions(candidate[1], candidate[2]) :
        /\ ~will_co_materialize(candidate, parent)
        /\ ~(is_source(parent[1]) /\ ~is_observable(parent[1]))
        /\ latest_materialization[parent] = 0}

\* C31: with no previous record every candidate is evaluated afresh, and
\* SkipOnParentMissingRule fires for a candidate exactly when some parent
\* partition that will not be materialized in the same run on this tick, and
\* whose asset is not a non-observable source, has no materialization or
\* observation record; the data is the set of the asset keys of those
\* parents; a parent that will co-materialize is not among them.
C31_ParentMissingFiresOnMissingParentsLeftAlone ==
    rule_call_returned("SkipOnParentMissingRule.evaluate_for_asset") =>
        /\ \A asset_partition \in AllAssetPartitions :
                asset_partition \in fired_asset_partitions
                    <=> /\ asset_partition \in call.candidates
                        /\ parents_found_missing(asset_partition) # {}
        /\ \A item \in call_result.value : \A candidate \in item[2] :
                /\ item[1] = WaitingOnAssetsRuleEvaluationData(
                                {parent[1] : parent \in parents_found_missing(candidate)})
                /\ \A parent_key \in item[1].waiting_on_asset_keys :
                    \E parent \in get_parents_partitions(candidate[1], candidate[2]) :
                        /\ parent[1] = parent_key
                        /\ ~will_co_materialize(candidate, parent)

\* the last partition of B is a candidate, its parent partition of A has no
\* record and is about to be materialized in the same run: the rule does not
\* fire for it
C31_Witness ==
    /\ rule_call_returned("SkipOnParentMissingRule.evaluate_for_asset")
    /\ AssetKeyPartitionKey("B", NumPartitions) \in call.candidates
    /\ AssetKeyPartitionKey("A", NumPartitions) \in get_parents_partitions("B", NumPartitions)
    /\ latest_materialization[AssetKeyPartitionKey("A", NumPartitions)] = 0
    /\ will_co_materialize(AssetKeyPartitionKey("B", NumPartitions),
                           AssetKeyPartitionKey("A", NumPartitions))
    /\ AssetKeyPartitionKey("B", NumPartitions) \notin fired_asset_partitions

\* ------------------------------------------------------------------- C32
\* the outdated ancestors of the parents of the candidate that no run of this
\* tick updates with it, the parents with an ignorable mapping left out
outdated_ancestors_of_parents_left_alone(candidate) ==
    UNION {get_outdated_ancestors(parent) :
            parent \in {p \in get_parents_partitions(candidate[1], candidate[2]) :
                            /\ ~will_co_materialize(candidate, p)
                            /\ ~have_ignorable_partition_mapping_for_outdated(candidate[1], p[1])}}

\* C32: with no previous record every candidate is evaluated afresh, and
\* SkipOnParentOutdatedRule fires for a candidate exactly when the union of
\* the outdated ancestors of its parents that will not co-materialize on this
\* tick, leaving out the parents whose partition mapping is ignorable for
\* outdatedness, is not empty; the data is that set of ancestor keys.
C32_ParentOutdatedFiresOnOutdatedAncestors ==
    rule_call_returned("SkipOnParentOutdatedRule.evaluate_for_asset") =>
        /\ \A asset_partition \in AllAssetPartitions :
                asset_partition \in fired_asset_partitions
                    <=> /\ asset_partition \in call.candidates
                        /\ outdated_ancestors_of_parents_left_alone(asset_partition) # {}
        /\ \A item \in call_result.value : \A candidate \in item[2] :
                item[1] = WaitingOnAssetsRuleEvaluationData(
                                outdated_ancestors_of_parents_left_alone(candidate))

\* the last partition of B is a candidate in the deployment where B is its
\* own parent: the partition of B before it is outdated, under the ignorable
\* mapping, and its parent partition of A is not: the rule does not fire for it
C32_Witness ==
    /\ rule_call_returned("SkipOnParentOutdatedRule.evaluate_for_asset")
    /\ "B" \in get_parents("B")
    /\ AssetKeyPartitionKey("B", NumPartitions) \in call.candidates
    /\ AssetKeyPartitionKey("B", NumPartitions - 1) \in outdated
    /\ ~will_co_materialize(AssetKeyPartitionKey("B", NumPartitions),
                            AssetKeyPartitionKey("B", NumPartitions - 1))
    /\ AssetKeyPartitionKey("A", NumPartitions) \notin outdated
    /\ AssetKeyPartitionKey("B", NumPartitions) \notin fired_asset_partitions

\* ------------------------------------------------------------------- C33
\* the four skip rules that evaluate only some of their candidates afresh
narrowing_skip_rules ==
    {rule \in skip_rules :
        rule.class_name \in {"SkipOnParentOutdatedRule", "SkipOnParentMissingRule",
                             "SkipOnNotAllParentsUpdatedRule",
                             "SkipOnRequiredButNonexistentParentsRule"}}

\* the (evaluation data, asset partition) pairs of a rule's result
pairs_of_results(results) ==
    UNION {{<<item[1], asset_partition>> : asset_partition \in item[2]} : item \in results}

\* the (evaluation data, asset partition) pairs a record holds for a rule
pairs_of_record(evaluation, rule) ==
    UNION {{<<entry[1].evaluation_data, asset_partition>> :
                asset_partition \in recorded_asset_partitions(evaluation, {entry})} :
            entry \in recorded_entries(evaluation, rule)}

\* the candidates a skip rule is to evaluate afresh: those with no MATERIALIZE
\* firing in the previous record and, but for the rule on nonexistent
\* parents, those with updated or will-update parents
to_evaluate_afresh(rule, asset_key) ==
    LET context == context_given(rule, asset_key)
        fired_before == UNION {recorded_for_decision(evaluation, MATERIALIZE) :
                                evaluation \in pending[asset_key].previous_tick_evaluation}
    IN  (context.candidates \ fired_before)
        \cup (IF rule.class_name = "SkipOnRequiredButNonexistentParentsRule"
              THEN {}
              ELSE context.candidates
                    \cap (get_asset_partitions_with_updated_parents(context)
                          \cup DOMAIN get_will_update_parent_mapping(context)))

\* what the rule returns for these candidates when it has no previous record
evaluated_afresh(rule, asset_key, candidates) ==
    evaluate_for_asset(rule,
        RuleEvaluationContext(asset_key,
            AssetDaemonCursor(EmptyMapping, cursor.latest_storage_id,
                              cursor.handled_root_asset_partitions),
            pending[asset_key].will_materialize_mapping, candidates),
        canonical_iteration_order)

\* what the record of the tick holds for the rule and the candidates is what
\* the rule finds afresh for the candidates it is to evaluate, and what the
\* previous record holds for the other candidates
narrowed_as_described(rule, asset_key) ==
    {pair \in pairs_of_record(pending[asset_key].result.evaluation, rule) :
        pair[2] \in context_given(rule, asset_key).candidates}
    = pairs_of_results(evaluated_afresh(rule, asset_key, to_evaluate_afresh(rule, asset_key)))
      \cup {pair \in UNION {pairs_of_record(evaluation, rule) :
                            evaluation \in pending[asset_key].previous_tick_evaluation} :
                pair[2] \in context_given(rule, asset_key).candidates
                                \ to_evaluate_afresh(rule, asset_key)}

\* C33: on every tick, ParentOutdated, ParentMissing and
\* NotAllParentsUpdated evaluate afresh exactly the candidates with no
\* MATERIALIZE firing in the previous record and the candidates with updated
\* or will-update parents, RequiredButNonexistentParents only the former, and
\* every other candidate the rule fired for on the previous tick keeps that
\* firing with the same data.
C33_SkipRulesNarrowToNewAndChangedCandidates ==
    \A asset_key \in DOMAIN pending : \A rule \in narrowing_skip_rules :
        narrowed_as_described(rule, asset_key)

\* on one tick a skip rule keeps, for a candidate it does not evaluate afresh,
\* the firing and the data of the previous record, and a skip rule leaves a
\* candidate it does not evaluate afresh as the previous record has it though
\* an evaluation of the candidate alone would now find otherwise
C33_Witness ==
    /\ phase = "evaluating"
    /\ \E asset_key \in DOMAIN pending : \E rule \in narrowing_skip_rules :
       \E evaluation \in pending[asset_key].previous_tick_evaluation :
       \E pair \in pairs_of_record(evaluation, rule) :
            /\ pair[2] \in context_given(rule, asset_key).candidates
                                \ to_evaluate_afresh(rule, asset_key)
            /\ pair \in pairs_of_record(pending[asset_key].result.evaluation, rule)
    /\ \E asset_key \in DOMAIN pending : \E rule \in narrowing_skip_rules :
       \E candidate \in context_given(rule, asset_key).candidates
                            \ to_evaluate_afresh(rule, asset_key) :
            pairs_of_results(evaluated_afresh(rule, asset_key, {candidate}))
                # {pair \in pairs_of_record(pending[asset_key].result.evaluation, rule) :
                        pair[2] = candidate}

\* ------------------------------------------------------------------- C34
\* the building of a record has returned or raised
built == call.op = "AutoMaterializeAssetEvaluation.from_rule_evaluation_results" /\ call_result.done

pairs_recorded_for(rule_snapshot) ==
    {<<firing[1].evaluation_data, firing[2]>> :
        firing \in {f \in call.asset_partitions_by_rule_evaluation :
                        f[1].rule_snapshot = rule_snapshot}}

\* C36: a record built by from_rule_evaluation_results from firings with
\* non-empty partition sets, read by get_rule_evaluation_results under the
\* partitions definition it was built under, gives back for every rule
\* exactly the (evaluation data, partition set) pairs of the firings of that
\* rule, for a partitioned asset and for an unpartitioned asset, whose
\* subset is stored as None and read back as its one asset partition.
C36_RecordRoundTrip ==
    (/\ built
     /\ call_result.value # check_failed
     /\ \A firing \in call.asset_partitions_by_rule_evaluation : firing[2] # {})
    => /\ \A firing \in call.asset_partitions_by_rule_evaluation :
            get_rule_evaluation_results(call_result.value, firing[1].rule_snapshot)
                = pairs_recorded_for(firing[1].rule_snapshot)
       /\ \A rule_snapshot \in rule_snapshots_of_deployment_1 :
            get_rule_evaluation_results(call_result.value, rule_snapshot)
                = pairs_recorded_for(rule_snapshot)
       /\ get_partitions_def(call.asset_key) = 0 =>
            \A entry \in call_result.value.partition_subsets_by_condition : entry[2] = NoSubset

\* a record of partitioned B was built from two firings of one rule with
\* different data and different partitions, and a record of unpartitioned B
\* from a firing for its one asset partition is read back with that partition
C36_Witness ==
    /\ built
    /\ call.asset_key = "B"
    /\ call_result.value # check_failed
    /\ Cardinality(call.asset_partitions_by_rule_evaluation) = MaxFirings
    /\ \A firing \in call.asset_partitions_by_rule_evaluation :
            /\ firing[1].rule_snapshot = to_snapshot(SkipOnParentMissingRule)
            /\ firing[2] # {}
    /\ b_partitioned
    /\ Cardinality(UNION {firing[2] : firing \in call.asset_partitions_by_rule_evaluation}) = NumPartitions
    /\ Cardinality(get_rule_evaluation_results(call_result.value, to_snapshot(SkipOnParentMissingRule))) = MaxFirings

\* a record of unpartitioned B built from a firing for its one asset
\* partition holds None and is read back with that asset partition
C36_UnpartitionedWitness ==
    /\ built
    /\ call.asset_key = "B"
    /\ ~b_partitioned
    /\ call.asset_partitions_by_rule_evaluation =
            {<<AutoMaterializeRuleEvaluation(to_snapshot(MaterializeOnMissingRule), NoData),
               {AssetKeyPartitionKey("B", NoPartitionKey)}>>}
    /\ get_rule_evaluation_results(call_result.value, to_snapshot(MaterializeOnMissingRule))
            = {<<NoData, {AssetKeyPartitionKey("B", NoPartitionKey)}>>}

\* ------------------------------------------------------------------- C35
\* the asset partitions the record of a tick shows as requested or discarded:
\* those with a MATERIALIZE firing and no SKIP firing
requested_or_discarded_on(evaluation) ==
    recorded_for_decision(evaluation, MATERIALIZE) \ recorded_for_decision(evaluation, SKIP)

\* the asset partitions a materialize rule fires for on this tick by its own
\* evaluation, the previous record left aside
fires_afresh(rule, asset_key) ==
    UNION {item[2] : item \in
        evaluated_afresh(rule, asset_key, context_given(rule, asset_key).candidates)}

\* C35: a partition that the previous tick requested or discarded is in the
\* output of MaterializeOnParentUpdatedRule or of MaterializeOnMissingRule on
\* this tick only if the rule fires for it afresh on this tick, never by
\* carry-forward, and it is in this tick's materialize union only if some
\* materialize rule fires for it afresh.
C35_NoReRequestByCarryForward ==
    \A asset_key \in DOMAIN pending : \A evaluation \in pending[asset_key].previous_tick_evaluation :
    \A asset_partition \in requested_or_discarded_on(evaluation) :
        /\ \A rule \in materialize_rules :
                asset_partition \in returned_on_tick(rule, asset_key)
                    => asset_partition \in fires_afresh(rule, asset_key)
        /\ asset_partition \in pending[asset_key].result.to_materialize
                => \E rule \in materialize_rules : asset_partition \in fires_afresh(rule, asset_key)

\* on one tick a partition of B that the previous tick requested, and that
\* no run has materialized since, is left out of the output of every
\* materialize rule, while a partition the previous tick skipped is carried
\* forward into it
C35_Witness ==
    /\ "B" \in DOMAIN pending
    /\ \E evaluation \in pending["B"].previous_tick_evaluation :
       \E requested \in requested_or_discarded_on(evaluation) :
       \E skipped \in recorded_for_decision(evaluation, SKIP) :
            /\ latest_materialization[requested] = 0
            /\ requested \notin pending["B"].result.to_materialize
            /\ \A rule \in materialize_rules : requested \notin returned_on_tick(rule, "B")
            /\ \E rule \in materialize_rules :
                    /\ skipped \in returned_on_tick(rule, "B")
                    /\ skipped \notin fires_afresh(rule, "B")

\* ------------------------------------------------------------------- C37
\* the comparison of a record with a stored record has returned
compared == call.op = "AutoMaterializeAssetEvaluation.equivalent_to_stored_evaluation" /\ call_result.done

\* the record holds entries and none of them deserializes against the
\* asset's partitions definition
no_subset_deserializes(evaluation) ==
    /\ evaluation.partition_subsets_by_condition # <<>>
    /\ \A i \in DOMAIN evaluation.partition_subsets_by_condition :
        deserialize_rule_evaluation_result(evaluation,
            evaluation.partition_subsets_by_condition[i][1],
            evaluation.partition_subsets_by_condition[i][2]) = {}

\* C37 as stated: equivalent_to_stored_evaluation returns true only if the
\* two records hold the same firings as (rule, evaluation data, logical
\* partition set) triples and equal requested, skipped and discarded counts,
\* and never for two records none of whose subsets deserializes.
C37_EquivalentOnlyIfSameFiringsAndCounts ==
    (compared /\ call_result.value)
    => \E stored \in call.stored_evaluation :
        /\ firings_of(call.self) = firings_of(stored)
        /\ call.self.num_requested = stored.num_requested
        /\ call.self.num_skipped = stored.num_skipped
        /\ call.self.num_discarded = stored.num_discarded
        /\ ~(no_subset_deserializes(call.self) /\ no_subset_deserializes(stored))

\* what the comparison does ensure when it returns true: a stored record of
\* the same asset with the same rule snapshots, zero requested and discarded
\* counts, the same skipped count and as many entries
C37_EquivalentOnlyIfSameCountsOfStored ==
    (compared /\ call_result.value)
    => \E stored \in call.stored_evaluation :
        /\ call.self.asset_key = stored.asset_key
        /\ call.self.rule_snapshots = stored.rule_snapshots
        /\ stored.num_requested = 0 /\ stored.num_discarded = 0
        /\ call.self.num_skipped = stored.num_skipped
        /\ Len(call.self.partition_subsets_by_condition)
                = Len(stored.partition_subsets_by_condition)

\* two readable records with the same subsets, one skipping for a missing
\* parent and one for an outdated parent, are judged equivalent
C37_DifferentRulesJudgedEquivalent ==
    /\ compared
    /\ call_result.value
    /\ readable(call.self)
    /\ \E stored \in call.stored_evaluation :
        /\ readable(stored)
        /\ {firing[2] : firing \in firings_of(call.self)} = {firing[2] : firing \in firings_of(stored)}
        /\ {firing[1].rule_snapshot : firing \in firings_of(call.self)}
                # {firing[1].rule_snapshot : firing \in firings_of(stored)}

\* two records none of whose subsets deserializes, with firings of different
\* rules for different partitions, are judged equivalent
C37_UnreadableJudgedEquivalent ==
    /\ compared
    /\ call_result.value
    /\ no_subset_deserializes(call.self)
    /\ \E stored \in call.stored_evaluation :
        /\ no_subset_deserializes(stored)
        /\ \A mine \in firings_of(call.self) : \A theirs \in firings_of(stored) :
                mine[1] # theirs[1] /\ mine[2] # theirs[2] 

\* a record that requested a partition is judged equivalent to a stored
\* record that requested none
C37_UnequalRequestedJudgedEquivalent ==
    /\ compared
    /\ call_result.value
    /\ \E stored \in call.stored_evaluation : call.self.num_requested # stored.num_requested

\* ------------------------------------------------------------------- C38
\* on this tick the rule's output for the current candidates is what an
\* evaluation of every current candidate with no previous record returns
agrees_with_full_evaluation(rule, asset_key) ==
    {pair \in pairs_of_record(pending[asset_key].result.evaluation, rule) :
            pair[2] \in context_given(rule, asset_key).candidates}
        = pairs_of_results(evaluated_afresh(rule, asset_key,
                                            context_given(rule, asset_key).candidates))

\* C38 as stated: on every tick the output of ParentOutdated, ParentMissing,
\* NotAllParentsUpdated and RequiredButNonexistentParents, restricted to the
\* current candidates, equals what the rule returns when it evaluates every
\* current candidate with no previous record.
C38_NarrowedAgreesWithFullEvaluation ==
    \A asset_key \in DOMAIN pending : \A rule \in narrowing_skip_rules :
        agrees_with_full_evaluation(rule, asset_key)

\* on one tick a skip rule leaves out a candidate it does not evaluate
\* afresh and would fire for: nothing was kept for it in the previous record
C38_StaleOutputOfNarrowedRule ==
    \E asset_key \in DOMAIN pending : \E rule \in narrowing_skip_rules :
    \E candidate \in context_given(rule, asset_key).candidates \ to_evaluate_afresh(rule, asset_key) :
        /\ candidate \notin returned_on_tick(rule, asset_key)
        /\ candidate \in UNION {item[2] : item \in evaluated_afresh(rule, asset_key, {candidate})}

\* what the ticks of the model do keep: the candidates skipped by some skip
\* rule are those a full evaluation of the skip rules would skip
C38_SkippedCandidatesAgreeWithFullEvaluation ==
    \A asset_key \in DOMAIN pending :
        pending[asset_key].result.to_materialize \cap pending[asset_key].result.to_skip
            = pending[asset_key].result.to_materialize
                \cap UNION {UNION {item[2] : item \in
                        evaluated_afresh(rule, asset_key, pending[asset_key].result.to_materialize)} :
                            rule \in skip_rules}

\* ------------------------------------------------------------------- C39
\* what the rule returns on the context of the call in the given mode: what
\* the call returned in its own mode, the rule's evaluation in the other
in_mode(require_update_for_all_parent_partitions) ==
    IF call.require_update_for_all_parent_partitions = require_update_for_all_parent_partitions
    THEN call_result.value
    ELSE SkipOnNotAllParentsUpdatedRule_evaluate_for_asset(
            SkipOnNotAllParentsUpdatedRule(require_update_for_all_parent_partitions),
            RuleEvaluationContext(call.asset_key, cursor, call.will_materialize_mapping,
                                  call.candidates))

\* the missing set the rule gives for a candidate in a mode: the data of its
\* firing, or the empty set when it does not fire
missing_set_in_mode(require_update_for_all_parent_partitions, candidate) ==
    UNION {item[1].waiting_on_asset_keys :
            item \in {i \in in_mode(require_update_for_all_parent_partitions) : candidate \in i[2]}}

has_partitions_of_every_parent(candidate) ==
    \A parent_key \in get_parents(candidate[1]) \ {candidate[1]} :
        \E parent \in get_parents_partitions(candidate[1], candidate[2]) : parent[1] = parent_key

=============================================================================
